---- MODULE Spec2Model ----
(***************************************************************************)
(* LUSDT: the token ledger (contracts/lusdt_token), the fee engine         *)
(* (contracts/tax_manager) and the reward engine                           *)
(* (contracts/staking_manager), as state machines.                         *)
(*                                                                         *)
(* A message is one atomic step: the whole handler, with every nested      *)
(* cross-contract call it makes.  A message works on `self`; what it has   *)
(* written to `self` before it returns Err stays written (the execution    *)
(* the repository's own #[ink::test] tests run, and the one spec section 5 *)
(* asks the contract-level invariants to hold under: no host rollback is   *)
(* relied upon).                                                           *)
(*                                                                         *)
(* Amounts are u128 in the source.  The model keeps the arithmetic and     *)
(* scales the magnitudes: BalanceMax stands for u128::MAX, and the         *)
(* program constants that do not fit are scaled with it (each says so).    *)
(***************************************************************************)
EXTENDS Integers, Sequences, FiniteSets, TLC

VARIABLES ledger, tax, staking, lunes, now, last

vars == <<ledger, tax, staking, lunes, now, last>>

---------------------------------------------------------------------------
(* Bounds of the model *)

\* u128::MAX, scaled
BalanceMax == 400
\* the block timestamp runs over 0..MaxTime
MaxTime == 2
\* an arbitrary contract installed as fee engine re-enters the ledger at most
\* this many times per hook invocation
MaxNested == 1

---------------------------------------------------------------------------
(* Accounts *)

\* ink's default accounts; the roles are those of the ledger's constructor call
\* in the e2e setup: alice deploys (owner), bob is the bridge, charlie the
\* emergency admin, eve is the address of this repository's TaxManager, frank
\* is the address of some other contract implementing the TaxManager trait.
\* django is the address of the StakingManager (the fee engine's staking pool).
Accounts == {"alice", "bob", "charlie", "django", "eve", "frank"}
LedgerAddr == "ledger"
TaxManagerAddr == "eve"
StakingAddr == "django"
ForeignAddr == "frank"

None == <<>>
Some(x) == <<x>>

Min(a, b) == IF a <= b THEN a ELSE b

\* u128 / u64 primitives
checked_add(a, b) == IF a + b > BalanceMax THEN None ELSE Some(a + b)
checked_sub(a, b) == IF a < b THEN None ELSE Some(a - b)
checked_mul(a, b) == IF a * b > BalanceMax THEN None ELSE Some(a * b)
\* a division that rounds up
checked_div_up(a, b) == IF b = 0 THEN None ELSE Some((a + b - 1) \div b)

checked_div(a, b) == IF b = 0 THEN None ELSE Some(a \div b)
\* a subtraction that is not carried out
sub_dropped(a, b) == a

\* the time elapsed measured from the epoch, not from the given start
sub_from_epoch(a, b) == a

saturating_sub(a, b) == IF a < b THEN 0 ELSE a - b
\* an addition that is not carried out
add_dropped(a, b) == a

saturating_add(a, b) == IF a + b > BalanceMax THEN BalanceMax ELSE a + b

\* what a message returns: the world after it, its result, the external calls
\* it made (in order), and the result of the fee hook if it got that far
Ret(st, res, log) == [st |-> st, res |-> res, log |-> log, hres |-> "NotCalled"]
RetH(st, res, log, hres) == [st |-> st, res |-> res, log |-> log, hres |-> hres]

\* one external call in a log
Call(callee, op, from, to, amount, res, moved) ==
    [callee |-> callee, op |-> op, from |-> from, to |-> to,
     amount |-> amount, res |-> res, moved |-> moved]

World == [ledger |-> ledger, tax |-> tax, staking |-> staking,
          lunes |-> lunes, now |-> now]

---------------------------------------------------------------------------
(* Ledger: contracts/lusdt_token *)

\* scaled from 3600000 ms: the timestamp advances in steps of one window
RATE_LIMIT_WINDOW == 1
\* scaled from 1_000_000_000_000, as BalanceMax is
MAX_MINT_PER_HOUR == 200

\* lengths of the Solana address passed to burn (only its length is read)
SolanaLens == {0, 31, 32, 44, 45}
Reasons == {"incident"}

WithLedger(W, L) == [W EXCEPT !.ledger = L]

\* LusdtToken::new(bridge_account, tax_manager, emergency_admin), called by alice
new(caller, bridge_account, tax_manager, emergency_admin, timestamp) ==
    [total_supply |-> 0,
     balances |-> [a \in Accounts |-> 0],
     allowances |-> [p \in Accounts \X Accounts |-> 0],
     owner |-> caller,
     bridge_account |-> bridge_account,
     emergency_admin |-> emergency_admin,
     paused |-> FALSE,
     pause_reason |-> None,
     paused_at |-> None,
     locked |-> FALSE,
     last_mint_time |-> 0,
     mint_window_amount |-> 0,
     mint_window_start |-> timestamp,
     tax_manager |-> tax_manager]

\* a pause guard that lets every call through
pause_guard_off(L) == "Ok"

ensure_not_paused(L) == IF L.paused THEN "ContractPaused" ELSE "Ok"

\* a lock that is taken without looking at it
lock_taken_unchecked(L) == [st |-> [L EXCEPT !.locked = TRUE], res |-> "Ok"]

ensure_not_locked(L) ==
    IF L.locked THEN [st |-> L, res |-> "ReentrancyDetected"]
    ELSE [st |-> [L EXCEPT !.locked = TRUE], res |-> "Ok"]

\* an unlock that leaves the lock as it is
unlock_skipped(L) == L

unlock(L) == [L EXCEPT !.locked = FALSE]

\* a bridge check that lets the owner through as well
ensure_bridge_or_owner(L, caller) ==
    IF caller # L.bridge_account /\ caller # L.owner THEN "Unauthorized" ELSE "Ok"

ensure_bridge_role(L, caller) ==
    IF caller # L.bridge_account THEN "Unauthorized" ELSE "Ok"

ensure_owner(L, caller) == IF caller # L.owner THEN "Unauthorized" ELSE "Ok"

ensure_emergency_admin(L, caller) ==
    IF caller # L.emergency_admin THEN "Unauthorized" ELSE "Ok"

check_mint_rate_limit(L, amount, current_time) ==
    LET L1 == IF saturating_sub(current_time, L.mint_window_start) >= RATE_LIMIT_WINDOW
              THEN [L EXCEPT !.mint_window_start = current_time,
                             !.mint_window_amount = 0]
              ELSE L
        new_amount == checked_add(L1.mint_window_amount, amount)
    IN  IF new_amount = None THEN [st |-> L1, res |-> "MathOverflow"]
        ELSE IF new_amount[1] > MAX_MINT_PER_HOUR
             THEN [st |-> L1, res |-> "RateLimitExceeded"]
        ELSE [st |-> [L1 EXCEPT !.mint_window_amount = new_amount[1]], res |-> "Ok"]

emergency_pause(W, caller, reason) ==
    LET L == W.ledger IN
    IF ensure_emergency_admin(L, caller) # "Ok" THEN Ret(W, "Unauthorized", <<>>)
    ELSE IF L.paused THEN Ret(W, "Ok", <<>>)
    ELSE Ret(WithLedger(W, [L EXCEPT !.paused = TRUE,
                                     !.pause_reason = Some(reason),
                                     !.paused_at = Some(W.now)]), "Ok", <<>>)

emergency_unpause(W, caller) ==
    LET L == W.ledger IN
    IF ensure_owner(L, caller) # "Ok" THEN Ret(W, "Unauthorized", <<>>)
    ELSE IF ~L.paused THEN Ret(W, "Ok", <<>>)
    ELSE Ret(WithLedger(W, [L EXCEPT !.paused = FALSE,
                                     !.pause_reason = None,
                                     !.paused_at = None]), "Ok", <<>>)

\* addition that wraps at the width instead of failing
wrapping_add(a, b) == Some((a + b) % (BalanceMax + 1))

\* a checked subtraction that reports success without subtracting
safe_sub_dropped(a, b) == IF a < b THEN None ELSE Some(a)

safe_add(a, b) == checked_add(a, b)
safe_sub(a, b) == checked_sub(a, b)

transfer(W, caller, to, value) ==
    LET L == W.ledger IN
    IF ensure_not_paused(L) # "Ok" THEN Ret(W, "ContractPaused", <<>>)
    ELSE LET lk == ensure_not_locked(L) IN
    IF lk.res # "Ok" THEN Ret(WithLedger(W, lk.st), lk.res, <<>>)
    ELSE LET L1 == lk.st
             from == caller
             from_balance == L1.balances[from] IN
    IF from_balance < value THEN Ret(WithLedger(W, unlock(L1)), "InsufficientBalance", <<>>)
    ELSE LET new_from_balance == safe_sub(from_balance, value) IN
    IF new_from_balance = None THEN Ret(WithLedger(W, L1), "MathUnderflow", <<>>)
    ELSE LET L2 == [L1 EXCEPT !.balances[from] = new_from_balance[1]]
             to_balance == L2.balances[to]
             new_to_balance == safe_add(to_balance, value) IN
    IF new_to_balance = None THEN Ret(WithLedger(W, L2), "MathOverflow", <<>>)
    ELSE LET L3 == [L2 EXCEPT !.balances[to] = new_to_balance[1]] IN
    Ret(WithLedger(W, unlock(L3)), "Ok", <<>>)

approve(W, caller, spender, amount) ==
    LET lk == ensure_not_locked(W.ledger) IN
    IF lk.res # "Ok" THEN Ret(WithLedger(W, lk.st), lk.res, <<>>)
    ELSE LET owner == caller IN
    Ret(WithLedger(W, [lk.st EXCEPT !.allowances[<<owner, spender>>] = amount]),
        "Ok", <<>>)

transfer_from(W, caller, from, to, amount) ==
    LET L == W.ledger IN
    IF ensure_not_paused(L) # "Ok" THEN Ret(W, "ContractPaused", <<>>)
    ELSE LET lk == ensure_not_locked(L) IN
    IF lk.res # "Ok" THEN Ret(WithLedger(W, lk.st), lk.res, <<>>)
    ELSE LET L1 == lk.st
             current_allowance == L1.allowances[<<from, caller>>] IN
    IF current_allowance < amount
    THEN Ret(WithLedger(W, unlock(L1)), "InsufficientAllowance", <<>>)
    ELSE LET new_allowance == safe_sub(current_allowance, amount) IN
    IF new_allowance = None THEN Ret(WithLedger(W, L1), "MathUnderflow", <<>>)
    ELSE LET L2 == [L1 EXCEPT !.allowances[<<from, caller>>] = new_allowance[1]]
             from_balance == L2.balances[from] IN
    IF from_balance < amount
    THEN Ret(WithLedger(W, unlock(L2)), "InsufficientBalance", <<>>)
    ELSE LET new_from_balance == safe_sub(from_balance, amount) IN
    IF new_from_balance = None THEN Ret(WithLedger(W, L2), "MathUnderflow", <<>>)
    ELSE LET L3 == [L2 EXCEPT !.balances[from] = new_from_balance[1]]
             to_balance == L3.balances[to]
             new_to_balance == safe_add(to_balance, amount) IN
    IF new_to_balance = None THEN Ret(WithLedger(W, L3), "MathOverflow", <<>>)
    ELSE LET L4 == [L3 EXCEPT !.balances[to] = new_to_balance[1]] IN
    Ret(WithLedger(W, unlock(L4)), "Ok", <<>>)

total_supply(L) == L.total_supply
balance_of(L, who) == L.balances[who]
allowance(L, owner, spender) == L.allowances[<<owner, spender>>]

set_bridge_account(W, caller, new_bridge) ==
    IF ensure_owner(W.ledger, caller) # "Ok" THEN Ret(W, "Unauthorized", <<>>)
    ELSE Ret(WithLedger(W, [W.ledger EXCEPT !.bridge_account = new_bridge]), "Ok", <<>>)

set_tax_manager_contract(W, caller, new_tax_manager) ==
    IF ensure_owner(W.ledger, caller) # "Ok" THEN Ret(W, "Unauthorized", <<>>)
    ELSE Ret(WithLedger(W, [W.ledger EXCEPT !.tax_manager = new_tax_manager]), "Ok", <<>>)

---------------------------------------------------------------------------
(* The LUNES PSP22 token: contracts/mock_lunes_token.  The token is honest    *)
(* (a successful call moves exactly the amount) but, being another contract, *)
(* a call to it may fail for reasons of its own: `ok` is that outcome.       *)

WithLunes(W, T) == [W EXCEPT !.lunes = T]

lunes_new(caller, initial_supply) ==
    [total_supply |-> initial_supply,
     balances |-> [a \in Accounts |-> IF a = caller THEN initial_supply ELSE 0],
     allowances |-> [p \in Accounts \X Accounts |-> 0]]

lunes_balance_of(T, who) == T.balances[who]

lunes_transfer_from_to(T, from, to, value) ==
    LET from_balance == lunes_balance_of(T, from) IN
    IF from_balance < value THEN [st |-> T, res |-> "InsufficientBalance"]
    ELSE LET T1 == [T EXCEPT !.balances[from] = from_balance - value]
             new_to_balance == checked_add(lunes_balance_of(T1, to), value) IN
    IF new_to_balance = None THEN [st |-> T1, res |-> "ArithmeticOverflow"]
    ELSE [st |-> [T1 EXCEPT !.balances[to] = new_to_balance[1]], res |-> "Ok"]

\* a transfer that reports success without moving anything
lunes_transfer_unmoved(T, caller, to, value, ok) ==
    [st |-> T, res |-> IF ok THEN "Ok" ELSE "CallFailed"]

lunes_transfer(T, caller, to, value, ok) ==
    IF ~ok THEN [st |-> T, res |-> "CallFailed"]
    ELSE LET r == lunes_transfer_from_to(T, caller, to, value) IN
         [st |-> r.st, res |-> IF r.res = "Ok" THEN "Ok" ELSE "CouldNotReadInput"]

lunes_transfer_from(T, caller, from, to, value, ok) ==
    IF ~ok THEN [st |-> T, res |-> "CallFailed"]
    ELSE LET al == T.allowances[<<from, caller>>] IN
    IF from # caller /\ al < value THEN [st |-> T, res |-> "CouldNotReadInput"]
    ELSE LET T1 == IF from # caller
                   THEN [T EXCEPT !.allowances[<<from, caller>>] = al - value]
                   ELSE T
             r == lunes_transfer_from_to(T1, from, to, value) IN
         [st |-> r.st, res |-> IF r.res = "Ok" THEN "Ok" ELSE "CouldNotReadInput"]

lunes_approve(T, caller, spender, value) ==
    [T EXCEPT !.allowances[<<caller, spender>>] = value]

---------------------------------------------------------------------------
(* Reward engine: contracts/staking_manager *)

\* scaled from 1e18, as BalanceMax is
PRECISION == 10

WithStaking(W, S) == [W EXCEPT !.staking = S]

StakerInfoDefault == [amount |-> 0, reward_per_token_paid |-> 0,
                      pending_rewards |-> 0, staked_at |-> 0]

\* the i-th external call of a message fails on the callee's side iff i \in fail
CallOk(fail, log) == (Len(log) + 1) \notin fail

staking_new(caller, lunes_token, lusdt_token, min_stake) ==
    [owner |-> caller,
     lunes_token |-> lunes_token,
     lusdt_token |-> lusdt_token,
     min_stake |-> min_stake,
     total_staked |-> 0,
     reward_per_token_stored |-> 0,
     total_rewards_deposited |-> 0,
     total_rewards_claimed |-> 0,
     stakers |-> [a \in {} |-> StakerInfoDefault],
     staker_count |-> 0,
     unstake_cooldown_ms |-> 0,
     paused |-> FALSE,
     authorized_depositor |-> None]

\* an insert that writes the record with its pending reward cleared
stakers_insert_cleared(S, user, info) ==
    [S EXCEPT !.stakers = [a \in (DOMAIN S.stakers) \cup {user} |->
                              IF a = user THEN [info EXCEPT !.pending_rewards = 0]
                              ELSE S.stakers[a]]]

\* Mapping::get / Mapping::insert on the stakers table
stakers_get(S, user) == IF user \in DOMAIN S.stakers THEN Some(S.stakers[user]) ELSE None
stakers_insert(S, user, info) ==
    [S EXCEPT !.stakers = [a \in (DOMAIN S.stakers) \cup {user} |->
                              IF a = user THEN info ELSE S.stakers[a]]]
get_staker_info(S, user) ==
    IF stakers_get(S, user) = None THEN StakerInfoDefault ELSE S.stakers[user]

staking_ensure_owner(S, caller) == IF caller # S.owner THEN "Unauthorized" ELSE "Ok"

\* a pause guard that lets every call through
staking_pause_unchecked(S) == "Ok"

staking_ensure_not_paused(S) == IF S.paused THEN "ContractPaused" ELSE "Ok"

ensure_authorized_depositor(S, caller) ==
    IF caller = S.owner THEN "Ok"
    ELSE IF S.authorized_depositor # None /\ caller = S.authorized_depositor[1] THEN "Ok"
    ELSE "Unauthorized"

\* a settlement that credits the whole product, the division by PRECISION
\* left out
update_reward_unscaled(S, info) ==
    [info |-> [info EXCEPT !.pending_rewards =
                               Min(@ + info.amount * (S.reward_per_token_stored
                                                      - info.reward_per_token_paid),
                                   BalanceMax),
                           !.reward_per_token_paid = S.reward_per_token_stored],
     res |-> "Ok"]

\* a settlement that is skipped
update_reward_skipped(S, info) == [info |-> info, res |-> "Ok"]

_update_reward(S, info) ==
    IF info.amount > 0
    THEN LET reward_delta == checked_sub(S.reward_per_token_stored,
                                         info.reward_per_token_paid) IN
         IF reward_delta = None THEN [info |-> info, res |-> "ArithmeticOverflow"]
         ELSE LET prod == checked_mul(info.amount, reward_delta[1]) IN
         IF prod = None THEN [info |-> info, res |-> "ArithmeticOverflow"]
         ELSE LET earned == prod[1] \div PRECISION
                  pending == checked_add(info.pending_rewards, earned) IN
         IF pending = None THEN [info |-> info, res |-> "ArithmeticOverflow"]
         ELSE [info |-> [info EXCEPT !.pending_rewards = pending[1],
                                     !.reward_per_token_paid = S.reward_per_token_stored],
               res |-> "Ok"]
    ELSE [info |-> [info EXCEPT !.reward_per_token_paid = S.reward_per_token_stored],
          res |-> "Ok"]

\* a distribution that credits the whole scaled amount to every staked token
distribute_undivided(S, amount) ==
    [st |-> [S EXCEPT !.reward_per_token_stored = @ + amount * PRECISION,
                      !.total_rewards_deposited = @ + amount],
     res |-> "Ok"]

_distribute_new_rewards(S, amount) ==
    LET prod == checked_mul(amount, PRECISION)
        inc == IF prod = None THEN None ELSE checked_div(prod[1], S.total_staked)
        sum == IF inc = None THEN None
               ELSE checked_add(S.reward_per_token_stored, inc[1]) IN
    IF S.total_staked > 0 /\ sum = None THEN [st |-> S, res |-> "ArithmeticOverflow"]
    ELSE LET S1 == IF S.total_staked > 0
                   THEN [S EXCEPT !.reward_per_token_stored = sum[1]]
                   ELSE S
             dep == checked_add(S1.total_rewards_deposited, amount) IN
    IF dep = None THEN [st |-> S1, res |-> "ArithmeticOverflow"]
    ELSE [st |-> [S1 EXCEPT !.total_rewards_deposited = dep[1]], res |-> "Ok"]

_notify_reward_amount(W, caller, amount) ==
    LET S == W.staking IN
    IF amount = 0 THEN Ret(W, "ZeroAmount", <<>>)
    ELSE IF ensure_authorized_depositor(S, caller) # "Ok" THEN Ret(W, "Unauthorized", <<>>)
    ELSE LET d == _distribute_new_rewards(S, amount) IN
         Ret(WithStaking(W, d.st), d.res, <<>>)

_deposit_rewards(W, caller, amount, fail) ==
    LET S == W.staking IN
    IF amount = 0 THEN Ret(W, "ZeroAmount", <<>>)
    ELSE IF ensure_authorized_depositor(S, caller) # "Ok" THEN Ret(W, "Unauthorized", <<>>)
    ELSE LET ok == CallOk(fail, <<>>)
             log == <<Call("lusdt", "transfer_from", caller, StakingAddr, amount,
                           IF ok THEN "Ok" ELSE "CallFailed", ok)>> IN
    IF ~ok THEN Ret(W, "LusdtTransferFailed", log)
    ELSE LET d == _distribute_new_rewards(S, amount) IN
         Ret(WithStaking(W, d.st), d.res, log)

\* the trait's messages: any error is reported as LangError::CouldNotReadInput
LangResult(r) ==
    [r EXCEPT !.res = IF r.res = "Ok" THEN "Ok" ELSE "CouldNotReadInput"]
deposit_rewards(W, caller, amount, fail) == LangResult(_deposit_rewards(W, caller, amount, fail))
notify_reward_amount(W, caller, amount) == LangResult(_notify_reward_amount(W, caller, amount))

stake(W, caller, amount, fail) ==
    LET S == W.staking IN
    IF staking_ensure_not_paused(S) # "Ok" THEN Ret(W, "ContractPaused", <<>>)
    ELSE LET info == get_staker_info(S, caller)
             new_total == checked_add(info.amount, amount) IN
    IF new_total = None THEN Ret(W, "ArithmeticOverflow", <<>>)
    ELSE IF new_total[1] < S.min_stake THEN Ret(W, "BelowMinimumStake", <<>>)
    ELSE LET ur == _update_reward(S, info) IN
    IF ur.res # "Ok" THEN Ret(W, ur.res, <<>>)
    ELSE LET tr == lunes_transfer_from(W.lunes, StakingAddr, caller, StakingAddr,
                                       amount, CallOk(fail, <<>>))
             log == <<Call("lunes", "transfer_from", caller, StakingAddr, amount,
                           tr.res, tr.res = "Ok")>>
             W1 == WithLunes(W, tr.st) IN
    IF tr.res # "Ok" THEN Ret(W1, "LunesTransferFailed", log)
    ELSE LET was_new == ur.info.amount = 0
             info1 == [ur.info EXCEPT !.amount = new_total[1],
                                      !.staked_at = IF was_new THEN W.now ELSE @]
             S1 == stakers_insert(
                       [S EXCEPT !.staker_count = IF was_new THEN @ + 1 ELSE @],
                       caller, info1)
             total == checked_add(S1.total_staked, amount) IN
    IF total = None THEN Ret(WithStaking(W1, S1), "ArithmeticOverflow", log)
    ELSE Ret(WithStaking(W1, [S1 EXCEPT !.total_staked = total[1]]), "Ok", log)

unstake(W, caller, fail) ==
    LET S == W.staking
        got == stakers_get(S, caller) IN
    IF got = None THEN Ret(W, "NoActiveStake", <<>>)
    ELSE IF got[1].amount = 0 THEN Ret(W, "NoActiveStake", <<>>)
    ELSE IF S.unstake_cooldown_ms > 0
            /\ saturating_sub(W.now, got[1].staked_at) < S.unstake_cooldown_ms
         THEN Ret(W, "CooldownNotElapsed", <<>>)
    ELSE LET ur == _update_reward(S, got[1]) IN
    IF ur.res # "Ok" THEN Ret(W, ur.res, <<>>)
    ELSE LET unstake_amount == ur.info.amount
             tr == lunes_transfer(W.lunes, StakingAddr, caller, unstake_amount,
                                  CallOk(fail, <<>>))
             log1 == <<Call("lunes", "transfer", StakingAddr, caller, unstake_amount,
                            tr.res, tr.res = "Ok")>>
             W1 == WithLunes(W, tr.st) IN
    IF tr.res # "Ok" THEN Ret(W1, "LunesTransferFailed", log1)
    ELSE LET S1 == [S EXCEPT !.total_staked = saturating_sub(@, unstake_amount),
                             !.staker_count = saturating_sub(@, 1)]
             info1 == [ur.info EXCEPT !.amount = 0, !.staked_at = 0]
             pending == info1.pending_rewards
             paid == pending > 0 /\ CallOk(fail, log1)
             log2 == IF pending > 0
                     THEN log1 \o <<Call("lusdt", "transfer", StakingAddr, caller, pending,
                                         IF paid THEN "Ok" ELSE "CallFailed", paid)>>
                     ELSE log1
             S2 == IF paid
                   THEN [S1 EXCEPT !.total_rewards_claimed = saturating_add(@, pending)]
                   ELSE S1
             info2 == IF paid THEN [info1 EXCEPT !.pending_rewards = 0] ELSE info1 IN
    Ret(WithStaking(W1, stakers_insert(S2, caller, info2)), "Ok", log2)

claim_rewards(W, caller, fail) ==
    LET S == W.staking
        got == stakers_get(S, caller) IN
    IF got = None THEN Ret(W, "NoActiveStake", <<>>)
    ELSE LET ur == _update_reward(S, got[1]) IN
    IF ur.res # "Ok" THEN Ret(W, ur.res, <<>>)
    ELSE LET reward == ur.info.pending_rewards IN
    IF reward = 0 THEN Ret(W, "NoRewardsToClaim", <<>>)
    ELSE LET ok == CallOk(fail, <<>>)
             log == <<Call("lusdt", "transfer", StakingAddr, caller, reward,
                           IF ok THEN "Ok" ELSE "CallFailed", ok)>> IN
    IF ~ok THEN Ret(W, "LusdtTransferFailed", log)
    ELSE LET S1 == [S EXCEPT !.total_rewards_claimed = saturating_add(@, reward)] IN
    Ret(WithStaking(W, stakers_insert(S1, caller, [ur.info EXCEPT !.pending_rewards = 0])),
        "Ok", log)

get_pending_rewards(S, user) ==
    LET info == get_staker_info(S, user) IN
    IF info.amount = 0 THEN info.pending_rewards
    ELSE LET reward_delta == saturating_sub(S.reward_per_token_stored,
                                            info.reward_per_token_paid)
             unsettled == Min(info.amount * reward_delta, BalanceMax) \div PRECISION IN
         saturating_add(info.pending_rewards, unsettled)

set_authorized_depositor(W, caller, depositor) ==
    IF staking_ensure_owner(W.staking, caller) # "Ok" THEN Ret(W, "Unauthorized", <<>>)
    ELSE Ret(WithStaking(W, [W.staking EXCEPT !.authorized_depositor = Some(depositor)]),
             "Ok", <<>>)

set_cooldown(W, caller, cooldown_ms) ==
    IF staking_ensure_owner(W.staking, caller) # "Ok" THEN Ret(W, "Unauthorized", <<>>)
    ELSE Ret(WithStaking(W, [W.staking EXCEPT !.unstake_cooldown_ms = cooldown_ms]),
             "Ok", <<>>)

pause(W, caller) ==
    IF staking_ensure_owner(W.staking, caller) # "Ok" THEN Ret(W, "Unauthorized", <<>>)
    ELSE Ret(WithStaking(W, [W.staking EXCEPT !.paused = TRUE]), "Ok", <<>>)

unpause(W, caller) ==
    IF staking_ensure_owner(W.staking, caller) # "Ok" THEN Ret(W, "Unauthorized", <<>>)
    ELSE Ret(WithStaking(W, [W.staking EXCEPT !.paused = FALSE]), "Ok", <<>>)

\* a new minimum that is applied to the stakes already made: they are dropped
set_min_stake_retroactive(W, caller, new_min) ==
    IF staking_ensure_owner(W.staking, caller) # "Ok" THEN Ret(W, "Unauthorized", <<>>)
    ELSE Ret(WithStaking(W, [W.staking EXCEPT !.min_stake = new_min,
                                              !.stakers = [a \in {} |-> StakerInfoDefault],
                                              !.total_staked = 0]), "Ok", <<>>)

set_min_stake(W, caller, new_min) ==
    IF staking_ensure_owner(W.staking, caller) # "Ok" THEN Ret(W, "Unauthorized", <<>>)
    ELSE Ret(WithStaking(W, [W.staking EXCEPT !.min_stake = new_min]), "Ok", <<>>)

---------------------------------------------------------------------------
(* Fee engine: contracts/tax_manager *)
(* The fee-currency tokens and the burn engine are other contracts: a call  *)
(* to one succeeds or fails as the callee decides (CallOk).  The staking    *)
(* pool is this repository's StakingManager.                                *)

\* u128::MAX for the fee arithmetic, whose products need more room than the
\* token amounts do
FeeMax == 2000000000
\* scaled from 10_000_000_000 and 100_000_000_000
VOLUME_THRESHOLD_1 == 2000
VOLUME_THRESHOLD_2 == 4000
\* scaled from 30 * 24 * 60 * 60 * 1000 ms
THIRTY_DAYS_MS == 2

FeeTypes == {"Lunes", "Lusdt", "Usdt"}
OperationTypes == {"Mint", "Burn"}

fee_checked_add(a, b) == IF a > FeeMax - b THEN None ELSE Some(a + b)
fee_checked_mul(a, b) == IF b # 0 /\ a > FeeMax \div b THEN None ELSE Some(a * b)
\* x.checked_mul(m).and_then(|v| v.checked_div(d))
mul_div(x, m, d) ==
    LET v == fee_checked_mul(x, m) IN IF v = None THEN None ELSE checked_div(v[1], d)

WithTax(W, X) == [W EXCEPT !.tax = X]

tax_new(caller, lunes_token_address, lusdt_token_address, distribution_wallets, initial_lunes_price, timestamp) ==
    [version |-> 1,
     owner |-> caller,
     lunes_token_address |-> lunes_token_address,
     lusdt_token_address |-> lusdt_token_address,
     distribution_wallets |-> distribution_wallets,
     fee_config |-> [base_fee_bps |-> 50,
                     volume_threshold_1_usd |-> VOLUME_THRESHOLD_1,
                     volume_threshold_2_usd |-> VOLUME_THRESHOLD_2,
                     low_volume_fee_bps |-> 60,
                     medium_volume_fee_bps |-> 50,
                     high_volume_fee_bps |-> 30],
     monthly_volume_usd |-> 0,
     last_volume_reset_timestamp |-> timestamp,
     lunes_price_usd |-> initial_lunes_price,
     burn_engine_address |-> None,
     lunes_burn_fee_bps |-> 10]

\* an owner check that accepts every caller
tax_owner_unchecked(X, caller) == "Ok"

tax_ensure_owner(X, caller) == IF caller # X.owner THEN "Unauthorized" ELSE "Ok"

\* a tier choice whose comparisons with the thresholds are strict
fee_bps_strict(X) ==
    IF X.monthly_volume_usd < X.fee_config.volume_threshold_1_usd
    THEN X.fee_config.low_volume_fee_bps
    ELSE IF X.monthly_volume_usd < X.fee_config.volume_threshold_2_usd
    THEN X.fee_config.medium_volume_fee_bps
    ELSE X.fee_config.high_volume_fee_bps

get_current_fee_bps(X) ==
    IF X.monthly_volume_usd <= X.fee_config.volume_threshold_1_usd
    THEN X.fee_config.low_volume_fee_bps
    ELSE IF X.monthly_volume_usd <= X.fee_config.volume_threshold_2_usd
    THEN X.fee_config.medium_volume_fee_bps
    ELSE X.fee_config.high_volume_fee_bps

update_lunes_price(W, caller, new_price) ==
    IF tax_ensure_owner(W.tax, caller) # "Ok" THEN Ret(W, "Unauthorized", <<>>)
    ELSE IF new_price = 0 THEN Ret(W, "InvalidPrice", <<>>)
    ELSE Ret(WithTax(W, [W.tax EXCEPT !.lunes_price_usd = new_price]), "Ok", <<>>)

update_fee_config(W, caller, new_config) ==
    IF tax_ensure_owner(W.tax, caller) # "Ok" THEN Ret(W, "Unauthorized", <<>>)
    ELSE IF new_config.low_volume_fee_bps > 10000
            \/ new_config.medium_volume_fee_bps > 10000
            \/ new_config.high_volume_fee_bps > 10000
    THEN Ret(W, "InvalidFeeConfig", <<>>)
    ELSE Ret(WithTax(W, [W.tax EXCEPT !.fee_config = new_config]), "Ok", <<>>)

update_dev_wallets(W, caller, dev_solana, dev_lunes) ==
    IF tax_ensure_owner(W.tax, caller) # "Ok" THEN Ret(W, "Unauthorized", <<>>)
    ELSE Ret(WithTax(W, [W.tax EXCEPT !.distribution_wallets.dev_solana = dev_solana,
                                      !.distribution_wallets.dev_lunes = dev_lunes]),
             "Ok", <<>>)

set_burn_engine(W, caller, burn_engine) ==
    IF tax_ensure_owner(W.tax, caller) # "Ok" THEN Ret(W, "Unauthorized", <<>>)
    ELSE Ret(WithTax(W, [W.tax EXCEPT !.burn_engine_address = Some(burn_engine)]),
             "Ok", <<>>)

set_lunes_burn_fee_bps(W, caller, bps) ==
    IF tax_ensure_owner(W.tax, caller) # "Ok" THEN Ret(W, "Unauthorized", <<>>)
    ELSE IF bps > 100 THEN Ret(W, "InvalidFeeConfig", <<>>)
    ELSE Ret(WithTax(W, [W.tax EXCEPT !.lunes_burn_fee_bps = bps]), "Ok", <<>>)

\* the volume update with the accumulation ahead of the reset check
update_volume_then_reset(X, new_tx_volume_usd, current_timestamp) ==
    LET sum == fee_checked_add(X.monthly_volume_usd, new_tx_volume_usd) IN
    IF sum = None THEN [st |-> X, res |-> "ArithmeticOverflow"]
    ELSE IF saturating_sub(current_timestamp, X.last_volume_reset_timestamp)
              >= THIRTY_DAYS_MS
    THEN [st |-> [X EXCEPT !.monthly_volume_usd = 0,
                           !.last_volume_reset_timestamp = current_timestamp],
          res |-> "Ok"]
    ELSE [st |-> [X EXCEPT !.monthly_volume_usd = sum[1]], res |-> "Ok"]

_update_monthly_volume(X, new_tx_volume_usd, current_timestamp) ==
    LET X1 == IF saturating_sub(current_timestamp, X.last_volume_reset_timestamp)
                 >= THIRTY_DAYS_MS
              THEN [X EXCEPT !.monthly_volume_usd = 0,
                             !.last_volume_reset_timestamp = current_timestamp]
              ELSE X
        sum == fee_checked_add(X1.monthly_volume_usd, new_tx_volume_usd) IN
    IF sum = None THEN [st |-> X1, res |-> "ArithmeticOverflow"]
    ELSE [st |-> [X1 EXCEPT !.monthly_volume_usd = sum[1]], res |-> "Ok"]

update_monthly_volume_now(W, new_tx_volume_usd) ==
    LET r == _update_monthly_volume(W.tax, new_tx_volume_usd, W.now) IN
    Ret(WithTax(W, r.st), r.res, <<>>)

\* Amounts of the fee arithmetic carry 3 decimals where the source carries 6:
\* the tier bounds, the caps and the price's precision factor are the source's
\* divided by 1000 (100_000_000 -> 100000, 500_000 -> 500, 1_000_000 -> 1000).
PRICE_PRECISION == 1000
TIER_1_MAX == 100000
TIER_2_MAX == 1000000
TIER_3_MAX == 10000000
CAP_1 == 500
CAP_2 == 2000
CAP_3 == 10000
CAP_4 == 50000

\* a cap table whose tier bounds are exclusive
max_fee_exclusive(lusdt_amount) ==
    IF lusdt_amount < TIER_1_MAX THEN CAP_1
    ELSE IF lusdt_amount < TIER_2_MAX THEN CAP_2
    ELSE IF lusdt_amount < TIER_3_MAX THEN CAP_3
    ELSE CAP_4

\* the cap of the transaction's size tier
max_fee_lunes(lusdt_amount) ==
    IF lusdt_amount <= TIER_1_MAX THEN CAP_1
    ELSE IF lusdt_amount <= TIER_2_MAX THEN CAP_2
    ELSE IF lusdt_amount <= TIER_3_MAX THEN CAP_3
    ELSE CAP_4

calculate_fee_in_lunes(lusdt_amount, fee_bps, lunes_price_usd) ==
    IF lunes_price_usd = 0 THEN [res |-> "InvalidPrice", fee |-> 0]
    ELSE LET fee_usd == mul_div(lusdt_amount, fee_bps, 10000) IN
    IF fee_usd = None THEN [res |-> "ArithmeticOverflow", fee |-> 0]
    ELSE LET fee_in_lunes == mul_div(fee_usd[1], PRICE_PRECISION, lunes_price_usd) IN
    IF fee_in_lunes = None THEN [res |-> "ArithmeticOverflow", fee |-> 0]
    ELSE [res |-> "Ok", fee |-> Min(fee_in_lunes[1], max_fee_lunes(lusdt_amount))]

\* one call to another contract, appended to the log; `ok` is its outcome
ext_call(log, fail, callee, op, from, to, amount) ==
    LET ok == CallOk(fail, log) IN
    [ok |-> ok,
     log |-> Append(log, Call(callee, op, from, to, amount,
                              IF ok THEN "Ok" ELSE "CallFailed", ok))]

\* a distribution whose staking share is its own 5 percent, not the remainder
distributions_by_percent(X, fee_amount, fee_type) ==
    LET wallets == X.distribution_wallets
        dev_wallet == IF fee_type = "Usdt" THEN wallets.dev_solana ELSE wallets.dev_lunes IN
    [res |-> "Ok",
     dist |-> << <<dev_wallet, (fee_amount * 80) \div 100>>,
                 <<wallets.insurance_fund, (fee_amount * 15) \div 100>>,
                 <<wallets.staking_rewards_pool, (fee_amount * 5) \div 100>> >>]

calculate_fee_distributions(X, fee_amount, fee_type) ==
    LET wallets == X.distribution_wallets
        dev_amount == mul_div(fee_amount, 80, 100)
        insurance_amount == mul_div(fee_amount, 15, 100) IN
    IF dev_amount = None \/ insurance_amount = None
    THEN [res |-> "ArithmeticOverflow", dist |-> <<>>]
    ELSE LET staking_amount == saturating_sub(saturating_sub(fee_amount, dev_amount[1]),
                                              insurance_amount[1])
             dev_wallet == IF fee_type = "Usdt" THEN wallets.dev_solana
                           ELSE wallets.dev_lunes IN
         [res |-> "Ok",
          dist |-> << <<dev_wallet, dev_amount[1]>>,
                      <<wallets.insurance_fund, insurance_amount[1]>>,
                      <<wallets.staking_rewards_pool, staking_amount>> >>]

\* the loop of distribute_collected_fees over distributions[i..]
RECURSIVE distribute_from(_, _, _, _)
distribute_from(dist, i, log, fail) ==
    IF i > Len(dist) THEN [res |-> "Ok", log |-> log]
    ELSE IF dist[i][2] > 0
    THEN LET c == ext_call(log, fail, "lunes", "transfer", TaxManagerAddr,
                           dist[i][1], dist[i][2]) IN
         IF ~c.ok THEN [res |-> "LunesTransferFailed", log |-> c.log]
         ELSE distribute_from(dist, i + 1, c.log, fail)
    ELSE distribute_from(dist, i + 1, log, fail)

distribute_collected_fees(X, fee_amount, fee_type, log, fail) ==
    LET d == calculate_fee_distributions(X, fee_amount, fee_type) IN
    IF d.res # "Ok" THEN [res |-> d.res, log |-> log]
    ELSE distribute_from(d.dist, 1, log, fail)

_process_fees_lunes(W, user, lusdt_amount, fee_bps, fail) ==
    LET X == W.tax
        f == calculate_fee_in_lunes(lusdt_amount, fee_bps, X.lunes_price_usd) IN
    IF f.res # "Ok" THEN Ret(W, f.res, <<>>)
    ELSE IF f.fee = 0 THEN Ret(W, "Ok", <<>>)
    ELSE LET pull == ext_call(<<>>, fail, "lunes", "transfer_from", user,
                              TaxManagerAddr, f.fee) IN
    IF ~pull.ok THEN Ret(W, "LunesTransferFailed", pull.log)
    ELSE LET d == distribute_collected_fees(X, f.fee, "Lunes", pull.log, fail) IN
    IF d.res # "Ok" THEN Ret(W, d.res, d.log)
    ELSE LET v == _update_monthly_volume(X, lusdt_amount, W.now) IN
         Ret(WithTax(W, v.st), v.res, d.log)

_process_fees_lusdt(W, user, lusdt_amount, fee_bps, fail) ==
    LET X == W.tax
        fee_amount == mul_div(lusdt_amount, fee_bps, 10000) IN
    IF fee_amount = None THEN Ret(W, "ArithmeticOverflow", <<>>)
    ELSE IF fee_amount[1] = 0 THEN Ret(W, "Ok", <<>>)
    ELSE LET pull == ext_call(<<>>, fail, "lusdt", "transfer_from", user,
                              TaxManagerAddr, fee_amount[1]) IN
    IF ~pull.ok THEN Ret(W, "LunesTransferFailed", pull.log)
    ELSE LET v == _update_monthly_volume(X, lusdt_amount, W.now) IN
         Ret(WithTax(W, v.st), v.res, pull.log)

_process_fees_usdt_bridge(W, user, lusdt_amount, fee_bps) ==
    LET fee_amount_usd == mul_div(lusdt_amount, fee_bps, 10000) IN
    IF fee_amount_usd = None THEN Ret(W, "ArithmeticOverflow", <<>>)
    ELSE IF fee_amount_usd[1] = 0 THEN Ret(W, "Ok", <<>>)
    ELSE LET v == _update_monthly_volume(W.tax, lusdt_amount, W.now) IN
         Ret(WithTax(W, v.st), v.res, <<>>)

_process_fees_flexible(W, user, lusdt_amount, fee_type, fail) ==
    LET fee_bps == get_current_fee_bps(W.tax) IN
    IF fee_type = "Lunes" THEN _process_fees_lunes(W, user, lusdt_amount, fee_bps, fail)
    ELSE IF fee_type = "Lusdt" THEN _process_fees_lusdt(W, user, lusdt_amount, fee_bps, fail)
    ELSE _process_fees_usdt_bridge(W, user, lusdt_amount, fee_bps)

_process_fees(W, user, lusdt_amount, fail) ==
    _process_fees_flexible(W, user, lusdt_amount, "Lunes", fail)

\* a best-effort call (`let _ = ...`): made, its outcome ignored
ignored_call(log, fail, callee, op, from, to, amount) ==
    ext_call(log, fail, callee, op, from, to, amount).log

\* staking_mgr.notify_reward_amount(staking_share), outcome ignored: the call
\* reaches the StakingManager unless it fails on the way
notify_staking(W, log, fail, pool, staking_share) ==
    IF pool = StakingAddr /\ CallOk(fail, log)
    THEN LET r == notify_reward_amount(W, TaxManagerAddr, staking_share) IN
         [st |-> r.st,
          log |-> Append(log, Call("staking", "notify_reward_amount", TaxManagerAddr,
                                   pool, staking_share, r.res, r.res = "Ok"))]
    ELSE [st |-> W,
          log |-> Append(log, Call("staking", "notify_reward_amount", TaxManagerAddr,
                                   pool, staking_share, "CallFailed", FALSE))]

\* Part 2 of the dual fee, and the whole of the burn-fee-only path: the LUNES
\* burn fee goes from the user to the burn engine, then the volume is updated
lunes_burn_part(W, user, lusdt_amount, burn_engine, log, fail) ==
    LET X == W.tax
        charged == X.lunes_burn_fee_bps > 0 /\ X.lunes_price_usd > 0
        f == calculate_fee_in_lunes(lusdt_amount, X.lunes_burn_fee_bps, X.lunes_price_usd)
        pull == ext_call(log, fail, "lunes", "transfer_from", user, burn_engine, f.fee) IN
    IF charged /\ f.res # "Ok" THEN Ret(W, f.res, log)
    ELSE IF charged /\ f.fee > 0 /\ ~pull.ok THEN Ret(W, "LunesTransferFailed", pull.log)
    ELSE LET log1 == IF charged /\ f.fee > 0 THEN pull.log ELSE log
             v == _update_monthly_volume(X, lusdt_amount, W.now) IN
         Ret(WithTax(W, v.st), v.res, log1)

_process_dual_fee(W, user, lusdt_amount, stablecoin_fee_type, fail) ==
    LET X == W.tax
        stablecoin_fee_bps == get_current_fee_bps(X)
        stablecoin_fee == mul_div(lusdt_amount, stablecoin_fee_bps, 10000) IN
    IF X.burn_engine_address = None THEN Ret(W, "BurnEngineNotSet", <<>>)
    ELSE IF stablecoin_fee = None THEN Ret(W, "ArithmeticOverflow", <<>>)
    ELSE LET burn_engine == X.burn_engine_address[1] IN
    IF stablecoin_fee[1] > 0 /\ stablecoin_fee_type = "Lunes"
    THEN _process_fees_lunes(W, user, lusdt_amount, stablecoin_fee_bps, fail)
    ELSE IF stablecoin_fee[1] > 0 /\ stablecoin_fee_type = "Lusdt"
    THEN LET pull == ext_call(<<>>, fail, "lusdt", "transfer_from", user,
                              TaxManagerAddr, stablecoin_fee[1])
             dev_share == mul_div(stablecoin_fee[1], 80, 100)
             insurance_share == mul_div(stablecoin_fee[1], 15, 100) IN
         IF ~pull.ok THEN Ret(W, "LusdtTransferFailed", pull.log)
         ELSE IF dev_share = None \/ insurance_share = None
         THEN Ret(W, "ArithmeticOverflow", pull.log)
         ELSE LET staking_share == saturating_sub(
                                       saturating_sub(stablecoin_fee[1], dev_share[1]),
                                       insurance_share[1])
                  wallets == X.distribution_wallets
                  log1 == IF dev_share[1] > 0
                          THEN ignored_call(pull.log, fail, "lusdt", "transfer",
                                            TaxManagerAddr, wallets.dev_lunes, dev_share[1])
                          ELSE pull.log
                  log2 == IF insurance_share[1] > 0
                          THEN ignored_call(log1, fail, "lusdt", "transfer", TaxManagerAddr,
                                            wallets.insurance_fund, insurance_share[1])
                          ELSE log1
                  log3 == IF staking_share > 0
                          THEN ignored_call(log2, fail, "lusdt", "transfer", TaxManagerAddr,
                                            wallets.staking_rewards_pool, staking_share)
                          ELSE log2
                  n == IF staking_share > 0
                       THEN notify_staking(W, log3, fail, wallets.staking_rewards_pool,
                                           staking_share)
                       ELSE [st |-> W, log |-> log3] IN
              lunes_burn_part(n.st, user, lusdt_amount, burn_engine, n.log, fail)
    ELSE lunes_burn_part(W, user, lusdt_amount, burn_engine, <<>>, fail)

_process_burn_fee_only(W, user, lusdt_amount, fail) ==
    IF W.tax.burn_engine_address = None THEN Ret(W, "BurnEngineNotSet", <<>>)
    ELSE lunes_burn_part(W, user, lusdt_amount, W.tax.burn_engine_address[1], <<>>, fail)

\* the TaxManagerApi messages
process_fees(W, user, lusdt_amount, fail) ==
    LangResult(_process_fees(W, user, lusdt_amount, fail))
process_fees_flexible(W, user, lusdt_amount, fee_type, fail) ==
    LangResult(_process_fees_flexible(W, user, lusdt_amount, fee_type, fail))
process_dual_fee(W, user, lusdt_amount, stablecoin_fee_type, fail) ==
    LangResult(_process_dual_fee(W, user, lusdt_amount, stablecoin_fee_type, fail))
process_burn_fee_only(W, user, lusdt_amount, fail) ==
    LangResult(_process_burn_fee_only(W, user, lusdt_amount, fail))

---------------------------------------------------------------------------
(* Ledger: mint and burn, with the fee hook (the non-test build)            *)
(*                                                                           *)
(* The hook calls process_fees on whatever contract the ledger's tax_manager *)
(* field names.  When that is this repository's TaxManager the call runs     *)
(* _process_fees.  Otherwise it is an arbitrary contract: it may call back   *)
(* into the ledger (as itself) up to MaxNested times and return Ok or Err.   *)
(* A hook behaviour hb = [ok, nested, fail] fixes these choices: `fail` for  *)
(* the calls the TaxManager makes, `ok` and `nested` for a foreign contract. *)

NoHook == [ok |-> TRUE, nested |-> <<>>, fail |-> {}]

RECURSIVE mint(_, _, _, _, _)
RECURSIVE burn(_, _, _, _, _)
RECURSIVE run_nested(_, _, _, _, _)

\* one call back into the ledger made by the contract at `tm`
nested_call(W, tm, c) ==
    IF c.op = "mint" THEN mint(W, tm, c.to, c.amount, NoHook)
    ELSE IF c.op = "burn" THEN burn(W, tm, c.amount, c.len, NoHook)
    ELSE IF c.op = "transfer" THEN transfer(W, tm, c.to, c.amount)
    ELSE IF c.op = "transfer_from" THEN transfer_from(W, tm, c.from, c.to, c.amount)
    ELSE approve(W, tm, c.to, c.amount)

\* the nested calls calls[i..], in order; each is logged with its result and
\* whether it changed a balance or the total supply
run_nested(W, tm, calls, i, log) ==
    IF i > Len(calls) THEN Ret(W, "Ok", log)
    ELSE LET c == calls[i]
             from == IF c.op = "transfer_from" THEN c.from ELSE tm
             moved(r) == r.st.ledger.balances # W.ledger.balances
                         \/ r.st.ledger.total_supply # W.ledger.total_supply
             then(r) == run_nested(r.st, tm, calls, i + 1,
                                   Append(log, Call(LedgerAddr, c.op, from, c.to, c.amount,
                                                    r.res, moved(r)))) IN
         then(nested_call(W, tm, c))

\* tax_manager.process_fees(operation, user, amount), as the ledger sees it
fee_hook(W, user, amount, hb) ==
    IF W.ledger.tax_manager = TaxManagerAddr
    THEN process_fees(W, user, amount, hb.fail)
    ELSE [run_nested(W, W.ledger.tax_manager, hb.nested, 1, <<>>)
              EXCEPT !.res = IF hb.ok THEN "Ok" ELSE "CouldNotReadInput"]

\* a fee hook whose failure fails the message: `?` on its result
hook_checked(h) ==
    IF h.res # "Ok" THEN RetH(h.st, "TaxManagerFailed", h.log, h.res)
    ELSE RetH(WithLedger(h.st, unlock(h.st.ledger)), "Ok", h.log, h.res)

\* `let _ = tax_manager.process_fees(..)`: whatever the hook returned (h), the
\* message releases the lock and returns Ok
hook_ignored(h) == RetH(WithLedger(h.st, unlock(h.st.ledger)), "Ok", h.log, h.res)

mint(W, caller, to, amount, hb) ==
    LET L == W.ledger IN
    IF ensure_not_paused(L) # "Ok" THEN Ret(W, "ContractPaused", <<>>)
    ELSE LET lk == ensure_not_locked(L) IN
    IF lk.res # "Ok" THEN Ret(WithLedger(W, lk.st), lk.res, <<>>)
    ELSE IF ensure_bridge_role(lk.st, caller) # "Ok"
    THEN Ret(WithLedger(W, lk.st), "Unauthorized", <<>>)
    ELSE LET rl == check_mint_rate_limit(lk.st, amount, W.now) IN
    IF rl.res # "Ok" THEN Ret(WithLedger(W, rl.st), rl.res, <<>>)
    ELSE IF amount = 0 THEN Ret(WithLedger(W, unlock(rl.st)), "Ok", <<>>)
    ELSE LET L1 == rl.st
             new_total_supply == safe_add(L1.total_supply, amount) IN
    IF new_total_supply = None THEN Ret(WithLedger(W, L1), "MathOverflow", <<>>)
    ELSE LET L2 == [L1 EXCEPT !.total_supply = new_total_supply[1]]
             new_balance == safe_add(L2.balances[to], amount) IN
    IF new_balance = None THEN Ret(WithLedger(W, L2), "MathOverflow", <<>>)
    ELSE LET L3 == [L2 EXCEPT !.balances[to] = new_balance[1]] IN
    hook_ignored(fee_hook(WithLedger(W, L3), caller, amount, hb))

burn(W, caller, amount, len, hb) ==
    LET L == W.ledger IN
    IF ensure_not_paused(L) # "Ok" THEN Ret(W, "ContractPaused", <<>>)
    ELSE LET lk == ensure_not_locked(L) IN
    IF lk.res # "Ok" THEN Ret(WithLedger(W, lk.st), lk.res, <<>>)
    ELSE LET L1 == lk.st IN
    IF len < 32 \/ len > 44 THEN Ret(WithLedger(W, unlock(L1)), "InvalidSolanaAddress", <<>>)
    ELSE IF amount = 0 THEN Ret(WithLedger(W, unlock(L1)), "Ok", <<>>)
    ELSE LET current_balance == L1.balances[caller] IN
    IF current_balance < amount
    THEN Ret(WithLedger(W, unlock(L1)), "InsufficientBalance", <<>>)
    ELSE LET new_balance == safe_sub(current_balance, amount) IN
    IF new_balance = None THEN Ret(WithLedger(W, L1), "MathUnderflow", <<>>)
    ELSE LET L2 == [L1 EXCEPT !.balances[caller] = new_balance[1]]
             new_total_supply == safe_sub(L2.total_supply, amount) IN
    IF new_total_supply = None THEN Ret(WithLedger(W, L2), "MathUnderflow", <<>>)
    ELSE LET L3 == [L2 EXCEPT !.total_supply = new_total_supply[1]] IN
    hook_ignored(fee_hook(WithLedger(W, L3), caller, amount, hb))

\* the events burn emits, in order: none on the exits that precede the
\* effects, Transfer and RedemptionRequested once both subtractions are done
burn_events(W, caller, amount, len) ==
    LET L == W.ledger IN
    IF ensure_not_paused(L) # "Ok" \/ ensure_not_locked(L).res # "Ok" THEN <<>>
    ELSE IF len < 32 \/ len > 44 THEN <<>>
    ELSE IF amount = 0 THEN <<>>
    ELSE IF L.balances[caller] < amount THEN <<>>
    ELSE IF safe_sub(L.balances[caller], amount) = None THEN <<>>
    ELSE IF safe_sub(L.total_supply, amount) = None THEN <<>>
    ELSE <<[event |-> "Transfer", from |-> caller, value |-> amount,
            block_timestamp |-> W.now],
           [event |-> "RedemptionRequested", from |-> caller, amount |-> amount,
            solana_recipient_address |-> len, request_id |-> W.now]>>

---------------------------------------------------------------------------
(* The state machine *)

\* the deployment: alice deploys the four contracts; bob is the bridge,
\* charlie the emergency admin; the fee engine's wallets are alice (dev),
\* bob (insurance) and the StakingManager (staking pool)
InitialLunesSupply == 200
InitialLunesPrice == 500
InitialMinStake == 100

Wallets == [dev_solana |-> "alice", dev_lunes |-> "alice",
            insurance_fund |-> "bob", staking_rewards_pool |-> StakingAddr]

\* `last` is the record of the message that has just returned; it is dropped
\* (Idle) before the next message is taken up
Idle == [op |-> "idle", caller |-> "none", amount |-> 0, res |-> "Ok",
         log |-> <<>>, hres |-> "NotCalled"]

Init ==
    /\ ledger = new("alice", "bob", TaxManagerAddr, "charlie", 0)
    /\ tax = tax_new("alice", "lunes", LedgerAddr, Wallets, InitialLunesPrice, 0)
    /\ staking = staking_new("alice", "lunes", LedgerAddr, InitialMinStake)
    /\ lunes = lunes_new("alice", InitialLunesSupply)
    /\ now = 0
    /\ last = Idle

\* a message returned r: the world is what it left, `last` records the call
\* and its amount argument (0 when the message takes none)
Returned(op, caller, amount, r) ==
    /\ last = Idle
    /\ ledger' = r.st.ledger
    /\ tax' = r.st.tax
    /\ staking' = r.st.staking
    /\ lunes' = r.st.lunes
    /\ now' = r.st.now
    /\ last' = [op |-> op, caller |-> caller, amount |-> amount, res |-> r.res,
                log |-> r.log, hres |-> r.hres]

\* the block timestamp advances
Tick ==
    /\ last = Idle
    /\ now < MaxTime
    /\ now' = now + 1
    /\ UNCHANGED <<ledger, tax, staking, lunes, last>>

\* the caller has taken note of the result
Forget ==
    /\ last # Idle
    /\ last' = Idle
    /\ UNCHANGED <<ledger, tax, staking, lunes, now>>

\* inputs of the ledger's messages
Amounts == {0, 200, 400}
Holders == {"alice", "frank"}
\* the fee engine's monthly volume counter is capped for the exploration
MaxHookVolume == 200

\* calls an arbitrary fee engine makes back into the ledger
NestedCalls ==
    {[op |-> "transfer", from |-> ForeignAddr, to |-> "alice", amount |-> 200, len |-> 0],
     [op |-> "transfer_from", from |-> "alice", to |-> ForeignAddr, amount |-> 200, len |-> 0],
     [op |-> "mint", from |-> ForeignAddr, to |-> ForeignAddr, amount |-> 200, len |-> 0],
     [op |-> "burn", from |-> ForeignAddr, to |-> ForeignAddr, amount |-> 200, len |-> 32]}

RECURSIVE SeqsUpTo(_, _)
SeqsUpTo(S, n) ==
    IF n = 0 THEN {<<>>}
    ELSE LET shorter == SeqsUpTo(S, n - 1) IN
         shorter \cup {Append(q, x) : q \in shorter, x \in S}

\* which of the legacy path's calls (the pull, then up to three legs) fails
HookFailSets == {{}} \cup {{i} : i \in 1..3}

\* what the fee hook may do in world W
HookBehaviours(W) ==
    IF W.ledger.tax_manager = TaxManagerAddr
    THEN {[ok |-> TRUE, nested |-> <<>>, fail |-> f] : f \in HookFailSets}
    ELSE {[ok |-> TRUE, nested |-> n, fail |-> {}] : n \in SeqsUpTo(NestedCalls, MaxNested)}
         \cup {[ok |-> FALSE, nested |-> <<>>, fail |-> {}]}

VolumeRoom(r) == r.st.tax.monthly_volume_usd <= MaxHookVolume

Mint ==
    \E caller \in {"alice", "bob", "frank"}, to \in {"alice"}, amount \in Amounts :
    \E hb \in HookBehaviours(World) :
        LET r == mint(World, caller, to, amount, hb) IN
        Returned("mint", caller, amount, r) /\ VolumeRoom(r)

Burn ==
    \E caller \in {"alice"}, amount \in {0, 200}, len \in SolanaLens :
    \E hb \in HookBehaviours(World) :
        LET r == burn(World, caller, amount, len, hb) IN
        Returned("burn", caller, amount, r) /\ VolumeRoom(r)

Transfer ==
    \E caller \in Holders, to \in Holders, value \in {0, 200} :
        Returned("transfer", caller, value, transfer(World, caller, to, value))

Approve ==
    \E caller \in {"alice"}, spender \in {"bob", "frank"}, amount \in {0, 200} :
        Returned("approve", caller, amount, approve(World, caller, spender, amount))

TransferFrom ==
    \E caller \in {"bob", "frank"}, from \in {"alice"}, to \in {"frank"}, amount \in {0, 200} :
        Returned("transfer_from", caller, amount, transfer_from(World, caller, from, to, amount))

EmergencyPause ==
    \E caller \in {"alice", "charlie"}, reason \in Reasons :
        Returned("emergency_pause", caller, 0, emergency_pause(World, caller, reason))

EmergencyUnpause ==
    \E caller \in {"alice", "charlie"} :
        Returned("emergency_unpause", caller, 0, emergency_unpause(World, caller))

SetBridgeAccount ==
    \E caller \in {"alice", "bob"}, new_bridge \in {"bob"} :
        Returned("set_bridge_account", caller, 0, set_bridge_account(World, caller, new_bridge))

SetTaxManagerContract ==
    \E caller \in {"alice", "bob"}, new_tax_manager \in {TaxManagerAddr, ForeignAddr} :
        Returned("set_tax_manager_contract", caller, 0,
                 set_tax_manager_contract(World, caller, new_tax_manager))

Next ==
    \/ Mint
    \/ Burn
    \/ Transfer
    \/ Approve
    \/ TransferFrom
    \/ EmergencyPause
    \/ EmergencyUnpause
    \/ SetBridgeAccount
    \/ SetTaxManagerContract
    \/ Tick
    \/ Forget

Spec == Init /\ [][Next]_vars

---------------------------------------------------------------------------
(* The reward engine's state machine: the StakingManager and the LUNES      *)
(* token its stakers hold                                                    *)

Stakers == {"alice", "bob"}
StakeAmounts == {0, 100}
RewardAmounts == {0, 10}
\* total_rewards_deposited is capped for the exploration
MaxRewards == 20
MaxStakerCount == 3
\* which of a staking message's token calls (at most two) fails
StakingFailSets == {{}, {1}, {2}}

LunesTransfer ==
    \E caller \in {"alice"}, to \in {"bob"}, value \in {100} :
        LET r == lunes_transfer(lunes, caller, to, value, TRUE) IN
        Returned("lunes_transfer", caller, value, Ret(WithLunes(World, r.st), r.res, <<>>))

LunesApprove ==
    \E caller \in Stakers, value \in {100} :
        Returned("lunes_approve", caller, value,
                 Ret(WithLunes(World, lunes_approve(lunes, caller, StakingAddr, value)),
                     "Ok", <<>>))

Stake ==
    \E caller \in Stakers, amount \in StakeAmounts, fail \in {{}, {1}} :
        /\ staking.staker_count < MaxStakerCount
        /\ Returned("stake", caller, amount, stake(World, caller, amount, fail))

Unstake ==
    \E caller \in Stakers, fail \in StakingFailSets :
        Returned("unstake", caller, 0, unstake(World, caller, fail))

ClaimRewards ==
    \E caller \in Stakers, fail \in {{}, {1}} :
        Returned("claim_rewards", caller, 0, claim_rewards(World, caller, fail))

DepositRewards ==
    \E caller \in {"alice", "bob", TaxManagerAddr}, amount \in RewardAmounts,
       fail \in {{}, {1}} :
        /\ staking.total_rewards_deposited + amount <= MaxRewards
        /\ Returned("deposit_rewards", caller, amount, deposit_rewards(World, caller, amount, fail))

NotifyRewardAmount ==
    \E caller \in {"alice", "bob", TaxManagerAddr}, amount \in RewardAmounts :
        /\ staking.total_rewards_deposited + amount <= MaxRewards
        /\ Returned("notify_reward_amount", caller, amount,
                    notify_reward_amount(World, caller, amount))

SetAuthorizedDepositor ==
    \E caller \in {"alice", "bob"}, depositor \in {TaxManagerAddr} :
        Returned("set_authorized_depositor", caller, 0,
                 set_authorized_depositor(World, caller, depositor))

SetCooldown ==
    \E caller \in {"alice", "bob"}, cooldown_ms \in {1} :
        Returned("set_cooldown", caller, cooldown_ms, set_cooldown(World, caller, cooldown_ms))

SetMinStake ==
    \E caller \in {"alice", "bob"}, new_min \in {InitialMinStake} :
        Returned("set_min_stake", caller, new_min, set_min_stake(World, caller, new_min))

StakingPause ==
    \E caller \in {"alice", "bob"} : Returned("pause", caller, 0, pause(World, caller))

StakingUnpause ==
    \E caller \in {"alice", "bob"} : Returned("unpause", caller, 0, unpause(World, caller))

NextStaking ==
    \/ LunesTransfer
    \/ LunesApprove
    \/ Stake
    \/ Unstake
    \/ ClaimRewards
    \/ DepositRewards
    \/ NotifyRewardAmount
    \/ SetAuthorizedDepositor
    \/ SetCooldown
    \/ SetMinStake
    \/ StakingPause
    \/ StakingUnpause
    \/ Forget

SpecStaking == Init /\ [][NextStaking]_vars

\* The stake ledger on its own, with set_min_stake free to lower the minimum
\* to zero (the message accepts any value from the owner)
LowerMinStake ==
    \E caller \in {"alice", "bob"}, new_min \in {0, InitialMinStake} :
        Returned("set_min_stake", caller, new_min, set_min_stake(World, caller, new_min))

NextStakeLedger ==
    \/ LunesTransfer
    \/ LunesApprove
    \/ Stake
    \/ Unstake
    \/ LowerMinStake
    \/ SetCooldown
    \/ StakingPause
    \/ StakingUnpause
    \/ Tick
    \/ Forget

SpecStakeLedger == Init /\ [][NextStakeLedger]_vars

---------------------------------------------------------------------------
(* The fee engine's state machine: the TaxManager, and the StakingManager   *)
(* it notifies                                                               *)

FeeAmounts == {0, 2000}
FeePayers == {"bob"}
\* the monthly volume counter is capped for the exploration
MaxVolume == 6000
\* and so is the sum of the rewards the fee engine notifies
MaxNotified == 4
\* which of a fee message's calls (at most six: the pull, three legs, the
\* notification, the burn-fee pull) fails
FeeFailSets == {{}} \cup {{i} : i \in 1..6}

DefaultFeeConfig == tax_new("alice", "lunes", LedgerAddr, Wallets, InitialLunesPrice, 0).fee_config

\* the caps of the exploration on the two counters a fee message may advance
FeeRoom(r) ==
    /\ r.st.tax.monthly_volume_usd <= MaxVolume
    /\ r.st.staking.total_rewards_deposited <= MaxNotified

ProcessFees ==
    \E caller \in FeePayers, amount \in FeeAmounts, fail \in FeeFailSets :
        LET r == process_fees(World, caller, amount, fail) IN
        Returned("process_fees", caller, amount, r) /\ FeeRoom(r)

ProcessFeesFlexible ==
    \E caller \in FeePayers, amount \in FeeAmounts, fee_type \in FeeTypes,
       fail \in FeeFailSets :
        LET r == process_fees_flexible(World, caller, amount, fee_type, fail) IN
        Returned("process_fees_flexible", caller, amount, r) /\ FeeRoom(r)

ProcessDualFee ==
    \E caller \in FeePayers, amount \in FeeAmounts, fee_type \in FeeTypes,
       fail \in FeeFailSets :
        LET r == process_dual_fee(World, caller, amount, fee_type, fail) IN
        Returned("process_dual_fee", caller, amount, r) /\ FeeRoom(r)

ProcessBurnFeeOnly ==
    \E caller \in FeePayers, amount \in FeeAmounts, fail \in FeeFailSets :
        LET r == process_burn_fee_only(World, caller, amount, fail) IN
        Returned("process_burn_fee_only", caller, amount, r) /\ FeeRoom(r)

UpdateMonthlyVolumeNow ==
    \E caller \in FeePayers, vol \in FeeAmounts :
        LET r == update_monthly_volume_now(World, vol) IN
        Returned("update_monthly_volume_now", caller, vol, r) /\ FeeRoom(r)

UpdateLunesPrice ==
    \E caller \in {"alice", "bob"}, new_price \in {0, InitialLunesPrice} :
        Returned("update_lunes_price", caller, new_price,
                 update_lunes_price(World, caller, new_price))

UpdateFeeConfig ==
    \E caller \in {"alice", "bob"},
       new_config \in {DefaultFeeConfig, [DefaultFeeConfig EXCEPT !.low_volume_fee_bps = 10001]} :
        Returned("update_fee_config", caller, 0, update_fee_config(World, caller, new_config))

UpdateDevWallets ==
    \E caller \in {"alice", "bob"}, dev \in {"alice"} :
        Returned("update_dev_wallets", caller, 0, update_dev_wallets(World, caller, dev, dev))

SetBurnEngine ==
    \E caller \in {"alice", "bob"}, burn_engine \in {ForeignAddr} :
        Returned("set_burn_engine", caller, 0, set_burn_engine(World, caller, burn_engine))

SetLunesBurnFeeBps ==
    \E caller \in {"alice", "bob"}, bps \in {10, 101} :
        Returned("set_lunes_burn_fee_bps", caller, bps,
                 set_lunes_burn_fee_bps(World, caller, bps))

NextFee ==
    \/ ProcessFees
    \/ ProcessFeesFlexible
    \/ ProcessDualFee
    \/ ProcessBurnFeeOnly
    \/ UpdateMonthlyVolumeNow
    \/ UpdateLunesPrice
    \/ UpdateFeeConfig
    \/ UpdateDevWallets
    \/ SetBurnEngine
    \/ SetLunesBurnFeeBps
    \/ SetAuthorizedDepositor
    \/ LunesApprove
    \/ Stake
    \/ Tick
    \/ Forget

SpecFee == Init /\ [][NextFee]_vars

\* the fee engine deployed with an initial price of zero, which the
\* constructor accepts (update_lunes_price does not)
InitZeroPrice ==
    /\ ledger = new("alice", "bob", TaxManagerAddr, "charlie", 0)
    /\ tax = tax_new("alice", "lunes", LedgerAddr, Wallets, 0, 0)
    /\ staking = staking_new("alice", "lunes", LedgerAddr, InitialMinStake)
    /\ lunes = lunes_new("alice", InitialLunesSupply)
    /\ now = 0
    /\ last = Idle

SpecFeeZeroPrice == InitZeroPrice /\ [][NextFee]_vars

---------------------------------------------------------------------------
(* The fee arithmetic on its own: the TaxManager's two pure functions,     *)
(* applied to arguments drawn from sets that straddle the tier bounds      *)

\* transaction sizes: zero, a dust amount, and both sides of every tier bound
CalcAmounts == {0, 100, 2000, TIER_1_MAX, TIER_1_MAX + 1, TIER_2_MAX, TIER_2_MAX + 1,
                TIER_3_MAX, TIER_3_MAX + 1, 2 * TIER_3_MAX}
CalcBps == {0, 10, 30, 50, 60}
\* prices of 0, 0.001, 0.10, 0.50 and 2 USD per LUNES
CalcPrices == {0, 1, 100, InitialLunesPrice, 2 * PRICE_PRECISION}

CalculateFeeInLunes ==
    \E lusdt_amount \in CalcAmounts, fee_bps \in CalcBps, lunes_price_usd \in CalcPrices :
        LET f == calculate_fee_in_lunes(lusdt_amount, fee_bps, lunes_price_usd) IN
        /\ last = Idle
        /\ last' = [op |-> "calculate_fee_in_lunes", caller |-> "none",
                    amount |-> lusdt_amount, res |-> f.res, log |-> <<>>,
                    hres |-> "NotCalled",
                    args |-> <<lusdt_amount, fee_bps, lunes_price_usd>>,
                    value |-> f.fee]
        /\ UNCHANGED <<ledger, tax, staking, lunes, now>>

\* fee amounts: zero, amounts the percentages do not divide, one LUNES, and
\* the 60 bps fee on TIER_2_MAX
CalcFees == {0, 1, 7, 19, 99, 100, 101, PRICE_PRECISION, (TIER_2_MAX * 60) \div 10000}

CalculateFeeDistributions ==
    \E operation \in OperationTypes, fee_amount \in CalcFees, fee_type \in FeeTypes :
        LET d == calculate_fee_distributions(tax, fee_amount, fee_type) IN
        /\ last = Idle
        /\ last' = [op |-> "calculate_fee_distributions", caller |-> "none",
                    amount |-> fee_amount, res |-> d.res, log |-> <<>>,
                    hres |-> "NotCalled",
                    args |-> <<operation, fee_amount, fee_type>>,
                    value |-> d.dist]
        /\ UNCHANGED <<ledger, tax, staking, lunes, now>>

NextCalc ==
    \/ CalculateFeeInLunes
    \/ CalculateFeeDistributions
    \/ Forget

SpecCalc == Init /\ [][NextCalc]_vars

---------------------------------------------------------------------------
(* Properties of the ledger *)

RECURSIVE SumOver(_, _)
SumOver(f, S) ==
    IF S = {} THEN 0
    ELSE LET a == CHOOSE x \in S : TRUE IN f[a] + SumOver(f, S \ {a})

LedgerOps == {"mint", "burn", "transfer", "transfer_from", "approve"}

\* the calls back into the ledger that the last message's fee hook made
NestedOf(ops) ==
    {i \in DOMAIN last.log : last.log[i].callee = LedgerAddr /\ last.log[i].op \in ops}

\* C1: in every reachable state of the ledger, after any sequence of
\* successful or failed mint, burn, transfer, transfer_from, approve,
\* emergency_pause and emergency_unpause calls, the balances of all accounts
\* sum to total_supply.
C1_Conservation == SumOver(ledger.balances, Accounts) = ledger.total_supply

\* C1's case: tokens are spread over two holders and a mint has just failed on
\* the overflow check, past the point where the ledger started to write
C1_Witness ==
    /\ last.op = "mint" /\ last.res = "MathOverflow" /\ ledger.locked
    /\ ledger.balances["alice"] > 0 /\ ledger.balances["frank"] > 0

\* C2 as stated: whenever mint, burn, transfer, transfer_from or approve has
\* returned, with Ok or with an error raised after the lock was taken, the
\* reentrancy lock is released.
C2_LockReleasedOnEveryExit ==
    (last.op \in LedgerOps /\ last.res \notin {"ContractPaused", "ReentrancyDetected"})
        => ~ledger.locked

\* C3 as stated: a transfer or transfer_from made by the fee hook while mint or
\* burn holds the lock is not rejected with ReentrancyDetected.
C3_NestedTransferNotRejected ==
    last.op \in {"mint", "burn"} =>
        \A i \in NestedOf({"transfer", "transfer_from"}) :
            last.log[i].res # "ReentrancyDetected"

\* C4: a mint or burn made by the fee hook while mint or burn holds the lock
\* fails with ReentrancyDetected and changes no balance and not the total
\* supply; the outer call still completes with Ok and leaves the lock released.
C4_NestedMintBurnRejected ==
    (last.op \in {"mint", "burn"} /\ NestedOf({"mint", "burn"}) # {}) =>
        /\ \A i \in NestedOf({"mint", "burn"}) :
               last.log[i].res = "ReentrancyDetected" /\ ~last.log[i].moved
        /\ last.res = "Ok"
        /\ ~ledger.locked

\* C4's case: during a burn the fee engine, which holds tokens of its own,
\* tried to burn them
C4_Witness ==
    /\ last.op = "burn"
    /\ \E i \in NestedOf({"burn"}) : last.log[i].amount <= ledger.balances[ForeignAddr]

\* everything but the record of the last call
world == <<ledger, tax, staking, lunes, now>>

\* the calls that meet their own preconditions succeed in world W
CallsSucceed(W) ==
    LET L == W.ledger IN
    ~L.locked =>
        /\ \A to \in Holders, amount \in Amounts, hb \in HookBehaviours(W) :
               (/\ check_mint_rate_limit(L, amount, W.now).res = "Ok"
                /\ L.total_supply + amount <= BalanceMax)
               => mint(W, L.bridge_account, to, amount, hb).res = "Ok"
        /\ \A caller \in Holders, amount \in Amounts, hb \in HookBehaviours(W) :
               L.balances[caller] >= amount
               => burn(W, caller, amount, 32, hb).res = "Ok"
        /\ \A caller \in Holders, to \in Holders, value \in Amounts :
               L.balances[caller] >= value
               => transfer(W, caller, to, value).res = "Ok"
        /\ \A caller \in Accounts, from \in Holders, to \in Holders, amount \in Amounts :
               (L.allowances[<<from, caller>>] >= amount /\ L.balances[from] >= amount)
               => transfer_from(W, caller, from, to, amount).res = "Ok"

\* C8: while the ledger is paused, mint, burn, transfer and transfer_from fail
\* with ContractPaused and change nothing, and balance_of and total_supply
\* still answer; once emergency_unpause has lifted the pause, the calls that
\* meet their preconditions succeed again.
C8_PauseBlocksAndUnpauseRestores ==
    [][/\ (ledger.paused /\ last'.op \in {"mint", "burn", "transfer", "transfer_from"})
          => /\ last'.res = "ContractPaused"
             /\ world' = world
             /\ \A a \in Accounts : balance_of(ledger', a) = ledger.balances[a]
             /\ total_supply(ledger') = ledger.total_supply
       /\ (ledger.paused /\ last'.op = "emergency_unpause" /\ last'.res = "Ok")
          => ~ledger'.paused /\ CallsSucceed(World')]_vars

\* C8's case: tokens are in circulation and the bridge's mint has just been
\* turned away by the pause
C8_Witness ==
    /\ last.op = "mint" /\ last.res = "ContractPaused"
    /\ last.caller = ledger.bridge_account
    /\ ledger.paused /\ ~ledger.locked /\ ledger.total_supply > 0

\* C9: the fee hook is a soft dependency: whatever the hook does and whether
\* it returns success or failure, mint and burn return the same result and
\* leave the same balances and total supply as with a hook that does nothing
\* and succeeds (hence the same as with any other hook).  The calls are taken
\* up where the state machine takes a message up: between two messages.
C9_HookOutcomeIrrelevant ==
    last = Idle =>
    \A hb \in HookBehaviours(World) :
        /\ \A caller \in {"bob", "frank"}, to \in Holders, amount \in Amounts :
               LET r1 == mint(World, caller, to, amount, hb)
                   r2 == mint(World, caller, to, amount, NoHook) IN
               /\ r1.res = r2.res
               /\ r1.st.ledger.balances = r2.st.ledger.balances
               /\ r1.st.ledger.total_supply = r2.st.ledger.total_supply
        /\ \A caller \in Holders, amount \in Amounts, len \in SolanaLens :
               LET r1 == burn(World, caller, amount, len, hb)
                   r2 == burn(World, caller, amount, len, NoHook) IN
               /\ r1.res = r2.res
               /\ r1.st.ledger.balances = r2.st.ledger.balances
               /\ r1.st.ledger.total_supply = r2.st.ledger.total_supply

\* C9's case: a mint has returned Ok and credited the recipient although the
\* fee engine's process_fees returned an error
C9_Witness ==
    /\ last.op = "mint" /\ last.res = "Ok" /\ last.hres = "CouldNotReadInput"
    /\ ledger.tax_manager = TaxManagerAddr
    /\ ledger.total_supply > 0

\* C13 as stated: the amount minted in one rate window never exceeds the cap;
\* a successful mint adds exactly its amount to the window counter; a mint that
\* would bring the counter above the cap fails with RateLimitExceeded and
\* changes no balance, no total_supply and no window counter; and the counter
\* goes down only when the window duration has elapsed since the window start.
C13_MintRateWindow ==
    [][LET elapsed == saturating_sub(now, ledger.mint_window_start) >= RATE_LIMIT_WINDOW
           counted == IF elapsed THEN 0 ELSE ledger.mint_window_amount IN
       /\ ledger'.mint_window_amount <= MAX_MINT_PER_HOUR
       /\ (last'.op = "mint" /\ last'.res = "Ok")
          => ledger'.mint_window_amount = counted + last'.amount
       /\ (last'.op = "mint" /\ last'.res = "RateLimitExceeded")
          => /\ ledger'.balances = ledger.balances
             /\ ledger'.total_supply = ledger.total_supply
             /\ ledger'.mint_window_amount = ledger.mint_window_amount
       /\ ledger'.mint_window_amount < ledger.mint_window_amount => elapsed]_vars

\* C14: only the bridge account can mint.  A mint by any other caller, the
\* owner included, never succeeds and changes no balance, no total_supply and
\* no mint-window counter; it is answered with Unauthorized whenever the
\* pause and lock guards, which mint consults first, let the call through.
C14_OnlyBridgeMints ==
    [][(last'.op = "mint" /\ last'.caller # ledger.bridge_account)
       => /\ last'.res # "Ok"
          /\ (~ledger.paused /\ ~ledger.locked) => last'.res = "Unauthorized"
          /\ ledger'.balances = ledger.balances
          /\ ledger'.total_supply = ledger.total_supply
          /\ ledger'.mint_window_amount = ledger.mint_window_amount
          /\ ledger'.mint_window_start = ledger.mint_window_start]_vars

\* C14's case: the owner has asked for a mint of a positive amount that the
\* rate limit would admit, and was refused as unauthorized
C14_Witness ==
    /\ last.op = "mint" /\ last.caller = ledger.owner
    /\ last.caller # ledger.bridge_account
    /\ last.amount > 0 /\ last.amount <= MAX_MINT_PER_HOUR
    /\ last.res = "Unauthorized"

\* C15 as stated: the owner is accepted wherever a narrower role is required,
\* so no message of the ledger answers the owner with Unauthorized, and a mint
\* called by the owner on an unpaused, unlocked ledger within the rate limit
\* (and within the width of the supply) succeeds.
C15_OwnerAcceptedEverywhere ==
    [][last'.caller = ledger.owner
       => /\ last'.res # "Unauthorized"
          /\ (/\ last'.op = "mint"
              /\ ~ledger.paused /\ ~ledger.locked
              /\ check_mint_rate_limit(ledger, last'.amount, now).res = "Ok"
              /\ ledger.total_supply + last'.amount <= BalanceMax)
             => last'.res = "Ok"]_vars

\* C16 as stated: emergency_pause succeeds exactly for the emergency admin
\* and for the owner, emergency_unpause succeeds exactly for the owner, and a
\* rejected caller leaves the pause flag, its reason and its timestamp
\* unchanged.
C16_PauseAsymmetric ==
    [][/\ last'.op = "emergency_pause"
          => (last'.res = "Ok" <=> last'.caller \in {ledger.emergency_admin, ledger.owner})
       /\ last'.op = "emergency_unpause"
          => (last'.res = "Ok" <=> last'.caller = ledger.owner)
       /\ (last'.op \in {"emergency_pause", "emergency_unpause"} /\ last'.res # "Ok")
          => /\ ledger'.paused = ledger.paused
             /\ ledger'.pause_reason = ledger.pause_reason
             /\ ledger'.paused_at = ledger.paused_at]_vars

\* C17 as stated: on a ledger that is not paused, a transfer_from of more than
\* allowance(from, caller) fails with InsufficientAllowance and leaves every
\* balance and every allowance unchanged; a transfer_from that succeeds lowers
\* the allowance by exactly the amount, never below zero; and no message but
\* approve creates or raises an allowance.
C17_AllowanceBoundsTransferFrom ==
    [][/\ last = Idle =>
          \A caller \in {"bob", "frank"}, from \in {"alice"}, to \in {"frank"}, amount \in Amounts :
              LET r == transfer_from(World, caller, from, to, amount)
                  granted == allowance(ledger, from, caller) IN
              /\ (~ledger.paused /\ amount > granted)
                 => /\ r.res = "InsufficientAllowance"
                    /\ r.st.ledger.balances = ledger.balances
                    /\ r.st.ledger.allowances = ledger.allowances
              /\ r.res = "Ok"
                 => /\ granted >= amount
                    /\ r.st.ledger.allowances =
                           [ledger.allowances EXCEPT ![<<from, caller>>] = granted - amount]
       /\ \A k \in DOMAIN ledger.allowances :
              ledger'.allowances[k] > ledger.allowances[k] => last'.op = "approve"]_vars

\* C18 as stated: approve(spender, X) called twice in a row by the same owner
\* with the same X returns success both times and leaves allowance(owner,
\* spender) at X, and neither call changes a balance or total_supply.
C18_ApproveTwice ==
    (last = Idle /\ ~ledger.locked) =>
        \A owner \in {"alice"}, spender \in {"bob", "frank"}, X \in {0, 200} :
            LET first == approve(World, owner, spender, X)
                second == approve(first.st, owner, spender, X) IN
            /\ first.res = "Ok" /\ second.res = "Ok"
            /\ allowance(second.st.ledger, owner, spender) = X
            /\ first.st.ledger.balances = ledger.balances
            /\ second.st.ledger.balances = ledger.balances
            /\ first.st.ledger.total_supply = ledger.total_supply
            /\ second.st.ledger.total_supply = ledger.total_supply

---------------------------------------------------------------------------
(* Properties of the reward engine *)

StakedAmounts(S) == [a \in DOMAIN S.stakers |-> S.stakers[a].amount]

\* C5: in every reachable state of the reward engine the stakers' staked
\* amounts sum to total_staked.
C5_StakedSum == SumOver(StakedAmounts(staking), DOMAIN staking.stakers) = staking.total_staked

\* C5's case: two accounts hold a stake and a stake has just been added
C5_Witness ==
    /\ last.op = "stake" /\ last.res = "Ok"
    /\ \A a \in Stakers : get_staker_info(staking, a).amount > 0

RewardOps == {"deposit_rewards", "notify_reward_amount"}

AdminOps == {"set_authorized_depositor", "set_cooldown", "set_min_stake", "pause", "unpause"}

\* the transfers out of the reward engine that the last message made
Outbound == {i \in DOMAIN last.log : last.log[i].from = StakingAddr}

\* C7: the owner's administrative messages change no staker's amount, pending
\* reward or checkpoint and not total_staked; the reward engine sends staked
\* principal only to the account that staked it (its whole stake, on unstake)
\* and reward only to the account whose record accrued it (its pending reward,
\* on unstake or claim_rewards), and sends nothing else.
C7_AdminAndPayouts ==
    [][/\ last'.op \in AdminOps
          => /\ staking'.stakers = staking.stakers
             /\ staking'.total_staked = staking.total_staked
       /\ \A i \in Outbound' :
              LET c == last'.log[i] IN
              \/ /\ c.callee = "lunes" /\ c.op = "transfer"
                 /\ last'.op = "unstake"
                 /\ c.to = last'.caller
                 /\ c.amount = get_staker_info(staking, last'.caller).amount
              \/ /\ c.callee = "lusdt" /\ c.op = "transfer"
                 /\ last'.op \in {"unstake", "claim_rewards"}
                 /\ c.to = last'.caller
                 /\ c.amount = get_pending_rewards(staking, last'.caller)]_vars

\* C7's case: an unstake has paid out principal and reward while another
\* account's stake stayed in the engine
C7_Witness ==
    /\ last.op = "unstake" /\ last.res = "Ok"
    /\ Len(last.log) = 2 /\ last.log[1].moved /\ last.log[2].moved
    /\ staking.total_staked > 0

\* C12: on unstake, a failing transfer of the principal aborts the call with
\* LunesTransferFailed and leaves the staker's record, total_staked and the
\* staker count as they were; a failing transfer of the reward does not block
\* the principal: the unstake succeeds, the stake is zeroed and taken out of
\* total_staked, and the unpaid reward stays on the record, where a later
\* claim_rewards finds and pays it.
C12_UnstakeTransfers ==
    [][last'.op = "unstake" =>
       LET u == last'.caller
           log == last'.log
           before == get_staker_info(staking, u)
           after == get_staker_info(staking', u) IN
       /\ (Len(log) >= 1 /\ log[1].res # "Ok")
          => /\ last'.res = "LunesTransferFailed"
             /\ after = before
             /\ staking'.total_staked = staking.total_staked
             /\ staking'.staker_count = staking.staker_count
       /\ (Len(log) = 2 /\ log[2].res # "Ok")
          => /\ last'.res = "Ok"
             /\ log[1].res = "Ok" /\ log[1].amount = before.amount
             /\ after.amount = 0
             /\ staking'.total_staked = staking.total_staked - before.amount
             /\ after.pending_rewards = get_pending_rewards(staking, u)
             /\ after.pending_rewards > 0
             /\ LET c == claim_rewards(World', u, {}) IN
                c.res = "Ok" /\ c.log[1].amount = after.pending_rewards]_vars

\* C12's case: an unstake has returned the principal although the transfer of
\* the reward failed, and the reward is still on the staker's record
C12_Witness ==
    /\ last.op = "unstake" /\ last.res = "Ok"
    /\ Len(last.log) = 2 /\ last.log[1].moved /\ last.log[2].res # "Ok"
    /\ get_staker_info(staking, last.caller).amount = 0
    /\ get_staker_info(staking, last.caller).pending_rewards > 0

---------------------------------------------------------------------------
(* Properties of the fee engine *)

FeeOps == {"process_fees", "process_fees_flexible", "process_dual_fee",
           "process_burn_fee_only"}

\* the pulls of a fee from the payer that the token refused
FailedPulls(log) == {i \in DOMAIN log : log[i].op = "transfer_from" /\ log[i].res # "Ok"}
\* the legs of a distribution: the fee engine sends tokens out of its own balance
DistributionLegs(log) ==
    {i \in DOMAIN log : log[i].op = "transfer" /\ log[i].from = TaxManagerAddr}
\* the calls that tell the reward engine of its share
Notifications(log) == {i \in DOMAIN log : log[i].op = "notify_reward_amount"}

\* C10 as stated: when a pull of the fee from the payer fails, in any of the
\* four fee-processing messages, the message returns an error and, within
\* that call, no distribution transfer has been made, the reward engine has
\* not been notified, and the rolling volume counter is what it was.
C10_FailedPullAborts ==
    [][(last'.op \in FeeOps /\ FailedPulls(last'.log) # {})
       => /\ last'.res # "Ok"
          /\ DistributionLegs(last'.log) = {}
          /\ Notifications(last'.log) = {}
          /\ staking' = staking
          /\ tax'.monthly_volume_usd = tax.monthly_volume_usd
          /\ tax'.last_volume_reset_timestamp = tax.last_volume_reset_timestamp]_vars


\* C11 as stated: in every fee-processing message, when a distribution
\* transfer to a destination wallet has failed, the message does not return
\* plain success.
C11_FailedLegNotSuccess ==
    (last.op \in FeeOps
     /\ \E i \in DistributionLegs(last.log) : last.log[i].res # "Ok")
        => last.res # "Ok"

\* C21: get_current_fee_bps returns the low-tier rate when the rolling volume
\* is below threshold-1 or equal to it, the medium-tier rate when it is above
\* threshold-1 and below or equal to threshold-2, and the high-tier rate when
\* it is above threshold-2; with the default configuration the three rates
\* are 60, 50 and 30 bps.
C21_FeeTiers ==
    LET v == tax.monthly_volume_usd
        c == tax.fee_config
        bps == get_current_fee_bps(tax) IN
    /\ c.volume_threshold_1_usd < c.volume_threshold_2_usd
    /\ v <= c.volume_threshold_1_usd => bps = c.low_volume_fee_bps
    /\ (v > c.volume_threshold_1_usd /\ v <= c.volume_threshold_2_usd)
       => bps = c.medium_volume_fee_bps
    /\ v > c.volume_threshold_2_usd => bps = c.high_volume_fee_bps
    /\ c = DefaultFeeConfig
       => bps = IF v <= VOLUME_THRESHOLD_1 THEN 60
                ELSE IF v <= VOLUME_THRESHOLD_2 THEN 50 ELSE 30

\* C21's case: a fee message has brought the rolling volume exactly onto
\* threshold-1, and the rate is still the low tier's
C21_Witness ==
    /\ last.op \in FeeOps /\ last.res = "Ok" /\ last.amount > 0
    /\ tax.monthly_volume_usd = tax.fee_config.volume_threshold_1_usd
    /\ get_current_fee_bps(tax) = 60

\* the rolling volume once a due reset has been applied
VolumeAfterReset(X, t) ==
    IF saturating_sub(t, X.last_volume_reset_timestamp) >= THIRTY_DAYS_MS
    THEN 0 ELSE X.monthly_volume_usd

\* C22 as stated: every fee-processing message that returns success, whatever
\* the fee currency, and also for an amount (100) whose computed fee is zero,
\* has raised the rolling volume counter by exactly its lusdt_amount, after
\* any due reset.
C22_VolumeCountsEveryOperation ==
    last = Idle =>
        \A user \in FeePayers, amount \in {0, 100, 2000}, fee_type \in FeeTypes :
        \A fail \in FeeFailSets :
        \A r \in {process_fees(World, user, amount, fail),
                  process_fees_flexible(World, user, amount, fee_type, fail),
                  process_dual_fee(World, user, amount, fee_type, fail),
                  process_burn_fee_only(World, user, amount, fail)} :
            r.res = "Ok"
            => r.st.tax.monthly_volume_usd = VolumeAfterReset(tax, now) + amount

\* C23: calculate_fee_in_lunes(amount, bps, price) with price > 0 (and
\* products that fit the width) returns
\* min(floor(floor(amount * bps / 10000) * PRICE_PRECISION / price), cap(amount)),
\* where cap is CAP_1 for amount <= TIER_1_MAX, CAP_2 up to TIER_2_MAX, CAP_3
\* up to TIER_3_MAX and CAP_4 above; hence the fee never exceeds the cap of
\* the transaction's size tier.
C23_FeeInLunesCapped ==
    (last.op = "calculate_fee_in_lunes" /\ last.args[3] > 0) =>
        LET amount == last.args[1]
            bps == last.args[2]
            price == last.args[3]
            cap == IF amount <= TIER_1_MAX THEN CAP_1
                   ELSE IF amount <= TIER_2_MAX THEN CAP_2
                   ELSE IF amount <= TIER_3_MAX THEN CAP_3
                   ELSE CAP_4
            computed == (((amount * bps) \div 10000) * PRICE_PRECISION) \div price IN
        /\ last.res = "Ok"
        /\ last.value = IF computed <= cap THEN computed ELSE cap
        /\ last.value <= cap

\* C23's case: on the upper bound of the smallest tier the computed fee is
\* above the tier's cap, and the cap is what is returned
C23_Witness ==
    /\ last.op = "calculate_fee_in_lunes" /\ last.res = "Ok"
    /\ last.args[1] = TIER_1_MAX /\ last.args[3] > 0
    /\ (((last.args[1] * last.args[2]) \div 10000) * PRICE_PRECISION) \div last.args[3] > CAP_1
    /\ last.value = CAP_1

\* C24: for every fee amount (whose products fit the width), for mint and
\* burn alike, the distribution is dev = floor(fee * 80 / 100), insurance =
\* floor(fee * 15 / 100), staking = fee - dev - insurance, in this order, and
\* the three shares sum exactly to the fee; the 60 bps fee on TIER_2_MAX
\* (1,000,000,000 in the source's units) is 6000 and is split 4800 / 900 / 300.
C24_DistributionSumsToFee ==
    last.op = "calculate_fee_distributions" =>
        LET fee == last.args[2]
            dist == last.value
            dev == (fee * 80) \div 100
            insurance == (fee * 15) \div 100 IN
        /\ last.res = "Ok" /\ Len(dist) = 3
        /\ dist[1][2] = dev
        /\ dist[2][2] = insurance
        /\ dist[3][2] = fee - dev - insurance
        /\ dist[1][2] + dist[2][2] + dist[3][2] = fee
        /\ fee = (TIER_2_MAX * 60) \div 10000
           => fee = 6000 /\ <<dist[1][2], dist[2][2], dist[3][2]>> = <<4800, 900, 300>>

\* C24's case: a burn's fee that neither percentage divides has been
\* distributed, and the staking share has taken the remainder
C24_Witness ==
    /\ last.op = "calculate_fee_distributions" /\ last.res = "Ok"
    /\ last.args[1] = "Burn" /\ last.args[2] = 19
    /\ <<last.value[1][2], last.value[2][2], last.value[3][2]>> = <<15, 2, 2>>

\* C25 as stated: whenever the configured price is 0 (and the burn engine is
\* set), every path that charges a fee in the staked asset fails with
\* InvalidPrice: _process_fees and _process_fees_flexible with the LUNES
\* currency, _process_dual_fee with any stablecoin currency, and
\* _process_burn_fee_only; and none of the four messages returns success.
C25_ZeroPriceIsAnError ==
    (last = Idle /\ tax.lunes_price_usd = 0 /\ tax.burn_engine_address # None) =>
        \A user \in FeePayers, amount \in FeeAmounts, fee_type \in FeeTypes :
        \A fail \in FeeFailSets :
            /\ _process_fees(World, user, amount, fail).res = "InvalidPrice"
            /\ _process_fees_flexible(World, user, amount, "Lunes", fail).res = "InvalidPrice"
            /\ _process_dual_fee(World, user, amount, fee_type, fail).res = "InvalidPrice"
            /\ _process_burn_fee_only(World, user, amount, fail).res = "InvalidPrice"
            /\ process_fees(World, user, amount, fail).res # "Ok"
            /\ process_dual_fee(World, user, amount, fee_type, fail).res # "Ok"
            /\ process_burn_fee_only(World, user, amount, fail).res # "Ok"

\* C26 as stated: whenever a fee-processing message has sent a non-zero
\* staking share to the staking pool, in the legacy single-currency path as
\* in the dual-fee path, the same message has invoked the reward engine's
\* notify_reward_amount with exactly that share.
C26_StakingShareNotified ==
    last.op \in FeeOps =>
        \A i \in DistributionLegs(last.log) :
            (/\ last.log[i].to = tax.distribution_wallets.staking_rewards_pool
             /\ last.log[i].amount > 0)
            => \E j \in Notifications(last.log) :
                   /\ j > i
                   /\ last.log[j].amount = last.log[i].amount

ConfigOps == {"update_fee_config", "update_lunes_price", "update_dev_wallets",
              "set_burn_engine", "set_lunes_burn_fee_bps"}

\* the fee engine's configuration
Configuration(X) ==
    <<X.fee_config, X.lunes_price_usd, X.distribution_wallets, X.burn_engine_address,
      X.lunes_burn_fee_bps, X.owner>>

\* C27: only the owner changes the fee engine's configuration.  Each of the
\* five configuration messages called by another account fails with
\* Unauthorized and changes nothing; called by the owner it is rejected
\* without change when the price is 0 (InvalidPrice), the burn-fee rate is
\* above 100 bps or a tier rate is above 10000 bps (InvalidFeeConfig), and
\* succeeds otherwise; and no other step changes the configuration.
C27_OwnerOnlyConfiguration ==
    [][/\ last'.op \in ConfigOps
          => /\ last'.caller # tax.owner
                => last'.res = "Unauthorized" /\ world' = world
             /\ last'.res # "Ok" => world' = world
             /\ last'.caller = tax.owner
                => /\ last'.res # "Unauthorized"
                   /\ last'.op = "update_lunes_price"
                      => (last'.res = "InvalidPrice" <=> last'.amount = 0)
                   /\ last'.op = "set_lunes_burn_fee_bps"
                      => (last'.res = "InvalidFeeConfig" <=> last'.amount > 100)
                   /\ last'.op \in {"update_dev_wallets", "set_burn_engine"}
                      => last'.res = "Ok"
       /\ last = Idle
          => \A low \in {60, 10000, 10001}, medium \in {50, 10001}, high \in {30, 10001} :
                 LET new_config == [DefaultFeeConfig EXCEPT !.low_volume_fee_bps = low,
                                                            !.medium_volume_fee_bps = medium,
                                                            !.high_volume_fee_bps = high]
                     r == update_fee_config(World, tax.owner, new_config) IN
                 IF low > 10000 \/ medium > 10000 \/ high > 10000
                 THEN r.res = "InvalidFeeConfig" /\ r.st = World
                 ELSE r.res = "Ok" /\ r.st.tax.fee_config = new_config
       /\ Configuration(tax') # Configuration(tax)
          => last'.op \in ConfigOps /\ last'.caller = tax.owner /\ last'.res = "Ok"]_vars

\* C27's case: an account other than the owner has asked for a valid price
\* and was refused, the price being what it was
C27_Witness ==
    /\ last.op = "update_lunes_price" /\ last.caller # tax.owner
    /\ last.amount > 0 /\ last.res = "Unauthorized"
    /\ tax.lunes_price_usd # 0

\* what a staker's record has earned: floor(amount * (accumulator - paid) /
\* PRECISION), on top of the pending reward already settled
Earned(S, u) ==
    LET info == get_staker_info(S, u) IN
    info.pending_rewards
        + (info.amount * (S.reward_per_token_stored - info.reward_per_token_paid))
          \div PRECISION

\* two deposits in a row, of a tenth and of a fifth of the total staked (the
\* scenario's 100 and 200 against 1000)
AfterTwoDeposits(W) ==
    LET first == _notify_reward_amount(W, W.staking.owner, W.staking.total_staked \div 10)
    IN  _notify_reward_amount(first.st, W.staking.owner, W.staking.total_staked \div 5)

\* C28: for a staker who does not interact between deposits, the pending
\* reward is floor(amount * (sum of the accumulator's increments since the
\* staker's last settlement) / PRECISION) on top of what was settled, as long
\* as the product fits the width: an accepted deposit leaves the staker's
\* record alone and raises what get_pending_rewards reports to that value,
\* and claim_rewards pays exactly it.  With a staker holding half of the
\* total staked and nothing earned yet, deposits of a tenth and then a fifth
\* of the total (100 then 200 against 1000, the staker holding 500) give a
\* pending reward of exactly three tenths of the staker's amount (150).
C28_PendingFromIncrements ==
    [][/\ \A u \in Stakers :
            LET before == get_staker_info(staking, u)
                inc == IF staking.total_staked > 0
                       THEN (last'.amount * PRECISION) \div staking.total_staked ELSE 0
                delta == staking.reward_per_token_stored - before.reward_per_token_paid
                due == before.pending_rewards
                           + (before.amount * (delta + inc)) \div PRECISION IN
            (/\ last'.op \in RewardOps /\ last'.res = "Ok"
             /\ before.amount > 0
             /\ before.amount * (delta + inc) <= BalanceMax)
            => /\ get_staker_info(staking', u) = before
               /\ staking'.reward_per_token_stored - before.reward_per_token_paid
                      = delta + inc
               /\ get_pending_rewards(staking', u) = due
               /\ Earned(staking', u) = due
               /\ due > 0
                  => LET c == claim_rewards(World', u, {}) IN
                     /\ c.res = "Ok"
                     /\ c.log[1].amount = due /\ c.log[1].to = u
                     /\ get_pending_rewards(c.st.staking, u) = 0
       /\ last = Idle
          => \A u \in Stakers :
                 (/\ get_staker_info(staking, u).amount > 0
                  /\ staking.total_staked = 2 * get_staker_info(staking, u).amount
                  /\ staking.total_staked % 20 = 0
                  /\ get_pending_rewards(staking, u) = 0
                  /\ staking.total_rewards_deposited = 0)
                 => LET after == AfterTwoDeposits(World)
                        share == (3 * get_staker_info(staking, u).amount) \div 10
                        c == claim_rewards(after.st, u, {}) IN
                    /\ after.res = "Ok"
                    /\ get_pending_rewards(after.st.staking, u) = share
                    /\ c.res = "Ok" /\ c.log[1].amount = share]_vars

\* C28's case: a deposit has just been accepted while a staker held a stake
\* and did not interact, the staker's record is still at the accumulator of
\* the last settlement, and the reward earned from the increment is pending;
\* the other staker holds nothing, so the staker holds the whole total
C28_Witness ==
    /\ last.op \in RewardOps /\ last.res = "Ok" /\ last.amount > 0
    /\ \E u \in Stakers :
           /\ get_staker_info(staking, u).amount = staking.total_staked
           /\ get_staker_info(staking, u).amount > 0
           /\ get_staker_info(staking, u).reward_per_token_paid
                  < staking.reward_per_token_stored
           /\ get_pending_rewards(staking, u) = last.amount

\* C29: when the pause guard lets the call through, stake(amount) fails with
\* BelowMinimumStake and changes nothing if the caller's cumulative stake
\* after the call would be below min_stake; on success the caller's amount
\* and total_staked each grow by exactly amount, and the staker count goes up
\* by one exactly when the caller's amount goes from zero to non-zero (and
\* stays as it was otherwise).
C29_StakeAccounting ==
    [][last'.op = "stake" =>
       LET u == last'.caller
           amount == last'.amount
           before == get_staker_info(staking, u)
           after == get_staker_info(staking', u) IN
       /\ (~staking.paused /\ before.amount + amount < staking.min_stake)
          => /\ last'.res = "BelowMinimumStake"
             /\ world' = world
       /\ last'.res = "Ok"
          => /\ after.amount = before.amount + amount
             /\ staking'.total_staked = staking.total_staked + amount
             /\ staking'.staker_count
                    = IF before.amount = 0 /\ after.amount # 0
                      THEN staking.staker_count + 1
                      ELSE staking.staker_count]_vars

\* C30: unstake always unstakes the full position: a successful unstake
\* transfers the caller's entire staked amount from the contract back to the
\* caller, sets the staker's amount to zero while keeping the record, and
\* decreases total_staked by exactly that amount; unstake by an account with
\* no record or a zero amount fails with NoActiveStake and changes nothing.
C30_UnstakeFullPosition ==
    [][last'.op = "unstake" =>
       LET u == last'.caller
           log == last'.log
           before == get_staker_info(staking, u)
           after == get_staker_info(staking', u) IN
       /\ last'.res = "Ok"
          => /\ before.amount > 0
             /\ Len(log) >= 1
             /\ log[1].callee = "lunes" /\ log[1].op = "transfer"
             /\ log[1].from = StakingAddr /\ log[1].to = u
             /\ log[1].amount = before.amount /\ log[1].moved
             /\ lunes_balance_of(lunes', u) = lunes_balance_of(lunes, u) + before.amount
             /\ lunes_balance_of(lunes', StakingAddr)
                    = lunes_balance_of(lunes, StakingAddr) - before.amount
             /\ stakers_get(staking', u) # None
             /\ after.amount = 0
             /\ staking'.total_staked = staking.total_staked - before.amount
       /\ (stakers_get(staking, u) = None \/ before.amount = 0)
          => /\ last'.res = "NoActiveStake"
             /\ world' = world]_vars

\* C30's case: an unstake has succeeded while another staker still holds a
\* stake: the caller's whole position went back to the caller, the record is
\* kept with amount zero, and total_staked is what the other staker holds
C30_Witness ==
    /\ last.op = "unstake" /\ last.res = "Ok"
    /\ last.log[1].moved /\ last.log[1].amount > 0
    /\ stakers_get(staking, last.caller) # None
    /\ get_staker_info(staking, last.caller).amount = 0
    /\ staking.total_staked > 0

\* C31: claim_rewards by a caller with a record settles and then pays exactly
\* the caller's pending reward to the caller, sets pending to zero and adds
\* the amount to total_rewards_claimed, leaving the caller's staked amount and
\* total_staked unchanged; it fails with NoRewardsToClaim, changing nothing,
\* when the settled pending is zero, and with LusdtTransferFailed when the
\* payout transfer fails, the pending amount staying claimable: a later
\* claim_rewards pays it.
C31_ClaimPaysPending ==
    [][(last'.op = "claim_rewards" /\ stakers_get(staking, last'.caller) # None) =>
       LET u == last'.caller
           log == last'.log
           before == get_staker_info(staking, u)
           after == get_staker_info(staking', u)
           due == get_pending_rewards(staking, u) IN
       /\ last'.res = "Ok"
          => /\ due > 0
             /\ log = <<Call("lusdt", "transfer", StakingAddr, u, due, "Ok", TRUE)>>
             /\ after.pending_rewards = 0
             /\ get_pending_rewards(staking', u) = 0
             /\ staking'.total_rewards_claimed = staking.total_rewards_claimed + due
             /\ after.amount = before.amount
             /\ staking'.total_staked = staking.total_staked
       /\ due = 0
          => /\ last'.res = "NoRewardsToClaim"
             /\ world' = world
       /\ (due > 0 /\ log[1].res # "Ok")
          => /\ last'.res = "LusdtTransferFailed"
             /\ get_pending_rewards(staking', u) = due
             /\ staking'.total_rewards_claimed = staking.total_rewards_claimed
             /\ after.amount = before.amount
             /\ staking'.total_staked = staking.total_staked
             /\ LET c == claim_rewards(World', u, {}) IN
                c.res = "Ok" /\ c.log[1].amount = due /\ c.log[1].to = u
       /\ last'.res \in {"Ok", "NoRewardsToClaim", "LusdtTransferFailed"}
       /\ due > 0 => Len(log) = 1]_vars

\* C31's case: a claim has just paid a staker's reward while the stake stays
\* in place
C31_Witness ==
    /\ last.op = "claim_rewards" /\ last.res = "Ok"
    /\ last.log[1].moved /\ last.log[1].amount > 0
    /\ get_staker_info(staking, last.caller).amount > 0
    /\ get_staker_info(staking, last.caller).pending_rewards = 0
    /\ staking.total_rewards_claimed >= last.log[1].amount

\* C32: while the reward engine is paused, stake fails with ContractPaused
\* and changes nothing, whereas unstake and claim_rewards return the same
\* result, make the same calls and leave the same state as they would if the
\* contract were not paused, whatever the outcome of their transfers.
C32_PausedExitsOpen ==
    [][/\ (last'.op = "stake" /\ staking.paused)
          => /\ last'.res = "ContractPaused"
             /\ world' = world
       /\ (last = Idle /\ staking.paused)
          => LET Unpaused == WithStaking(World, [staking EXCEPT !.paused = FALSE]) IN
             \A u \in Stakers, fail \in StakingFailSets :
                 LET un == unstake(World, u, fail)
                     un0 == unstake(Unpaused, u, fail)
                     cl == claim_rewards(World, u, fail)
                     cl0 == claim_rewards(Unpaused, u, fail) IN
                 /\ un.res = un0.res /\ un.log = un0.log
                 /\ un.st = WithStaking(un0.st, [un0.st.staking EXCEPT !.paused = TRUE])
                 /\ cl.res = cl0.res /\ cl.log = cl0.log
                 /\ cl.st = WithStaking(cl0.st, [cl0.st.staking EXCEPT !.paused = TRUE])
       /\ (last'.op \in {"unstake", "claim_rewards"} /\ staking.paused)
          => last'.res # "ContractPaused"]_vars

\* C32's case: on the paused contract a staker has unstaked and got the
\* principal back
C32_Witness ==
    /\ staking.paused
    /\ last.op = "unstake" /\ last.res = "Ok"
    /\ last.log[1].moved /\ last.log[1].amount > 0

C34_ResetPrecedesAccumulation ==
    [][(\/ last'.op = "update_monthly_volume_now" /\ last'.res = "Ok"
        \/ /\ last'.op \in FeeOps
           /\ <<tax'.monthly_volume_usd, tax'.last_volume_reset_timestamp>>
                  # <<tax.monthly_volume_usd, tax.last_volume_reset_timestamp>>)
       => IF now - tax.last_volume_reset_timestamp >= THIRTY_DAYS_MS
          THEN /\ tax'.monthly_volume_usd = last'.amount
               /\ tax'.last_volume_reset_timestamp = now
          ELSE /\ tax'.monthly_volume_usd = tax.monthly_volume_usd + last'.amount
               /\ tax'.last_volume_reset_timestamp = tax.last_volume_reset_timestamp]_vars

\* C34's case: a volume has just been recorded 30 days after the last reset:
\* the reset timestamp is the current time and the counter is the recorded
\* amount alone
C34_Witness ==
    /\ last.op = "update_monthly_volume_now" /\ last.res = "Ok" /\ last.amount > 0
    /\ now >= THIRTY_DAYS_MS
    /\ tax.last_volume_reset_timestamp = now
    /\ tax.monthly_volume_usd = last.amount

\* the redemption requests among the events of a burn
RedemptionRequests(events) ==
    {i \in DOMAIN events : events[i].event = "RedemptionRequested"}

\* C35 as stated: every successful non-zero burn emits exactly one
\* redemption-request event, and no redemption request of a burn that follows
\* it carries the same identifier.
C35_RedemptionIdsUnique ==
    [][(last'.op = "burn" /\ last'.res = "Ok" /\ last'.amount > 0)
       => \A len \in {n \in SolanaLens : n >= 32 /\ n <= 44} :
          LET first == burn_events(World, last'.caller, last'.amount, len) IN
          /\ Cardinality(RedemptionRequests(first)) = 1
          /\ \A u \in Holders, amount \in {200} :
                 LET second == burn_events(World', u, amount, len) IN
                 \A i \in RedemptionRequests(first), j \in RedemptionRequests(second) :
                     second[j].request_id # first[i].request_id]_vars

\* C36: with a non-zero cooldown, unstake by an account that holds a stake
\* fails with CooldownNotElapsed and changes nothing whenever less than the
\* cooldown has elapsed since the staker's stake timestamp, and is not
\* rejected for the cooldown once it has elapsed; with cooldown 0 unstake is
\* never rejected for the cooldown.  The stake timestamp is set to the
\* current time by the stake that takes the amount from zero to non-zero and
\* left alone by a top-up.
C36_CooldownFromStakeTime ==
    [][LET u == last'.caller
           before == get_staker_info(staking, u)
           after == get_staker_info(staking', u)
           cooldown == staking.unstake_cooldown_ms IN
       /\ (last'.op = "unstake" /\ before.amount > 0)
          => IF cooldown > 0 /\ now - before.staked_at < cooldown
             THEN last'.res = "CooldownNotElapsed" /\ world' = world
             ELSE last'.res # "CooldownNotElapsed"
       /\ (last'.op = "stake" /\ last'.res = "Ok" /\ after.amount > 0)
          => after.staked_at = IF before.amount = 0 THEN now ELSE before.staked_at]_vars

\* C36's case: with a cooldown in force, a stake made after time 0 has been
\* unstaked, which the cooldown allowed only once it had elapsed
C36_Witness ==
    /\ staking.unstake_cooldown_ms > 0
    /\ last.op = "unstake" /\ last.res = "Ok"
    /\ last.log[1].moved /\ last.log[1].amount > 0
    /\ now >= staking.unstake_cooldown_ms

\* what each staker can claim: the recorded pending reward plus the earnings
\* not yet settled
Claimable(S) == [a \in DOMAIN S.stakers |-> Earned(S, a)]

\* C37: in every reachable state of the reward engine, the sum over all
\* stakers of the claimable reward (recorded pending plus not-yet-settled
\* earnings amount * (reward_per_share - paid) / PRECISION) is at most
\* total_rewards_deposited - total_rewards_claimed, and total_rewards_claimed
\* never exceeds total_rewards_deposited.
C37_RewardsCovered ==
    /\ SumOver(Claimable(staking), DOMAIN staking.stakers)
           <= staking.total_rewards_deposited - staking.total_rewards_claimed
    /\ staking.total_rewards_claimed <= staking.total_rewards_deposited

\* C37's case: rewards were deposited while two accounts held a stake, one
\* has been paid and the other's is still claimable
C37_Witness ==
    /\ staking.total_rewards_claimed > 0
    /\ SumOver(Claimable(staking), DOMAIN staking.stakers) > 0
    /\ Cardinality({a \in DOMAIN staking.stakers : staking.stakers[a].amount > 0}) = 2

C39_VolumeOnlyByFeeProcessing ==
    [][(\/ tax'.monthly_volume_usd # tax.monthly_volume_usd
        \/ get_current_fee_bps(tax') # get_current_fee_bps(tax))
       => (last'.op \in FeeOps \/ last'.caller = tax.owner)]_vars

\* the accounts that hold a stake
ActiveStakers(S) == {a \in DOMAIN S.stakers : S.stakers[a].amount # 0}

\* C40 as stated: in every reachable state of the reward engine, for every
\* min_stake the owner can configure (0 included) and every stake amount (0
\* included), staker_count equals the number of accounts whose staked amount
\* is non-zero.
C40_StakerCountMatches == staking.staker_count = Cardinality(ActiveStakers(staking))

====
